---------------------------- MODULE Spec2Model ----------------------------
(***************************************************************************)
(* Fraud-detection multi-agent pipeline: the orchestrator of               *)
(* backend/app/orchestration/graph.py, the agents it sequences, the        *)
(* file-backed audit / HITL / decision stores of                           *)
(* backend/app/storage/local_json.py and the HITL resolution route of      *)
(* backend/app/api/routes.py.                                              *)
(*                                                                         *)
(* Conventions.  Reals are integers in hundredths (0.45 is 45).  Python's  *)
(* None is the empty tuple and a present value x is <<x>>.  A Python dict  *)
(* with optional keys is a function whose DOMAIN is its key set.  Strings  *)
(* are the source's strings with accents dropped.                          *)
(***************************************************************************)
EXTENDS Integers, Sequences, FiniteSets, TLC

None == <<>>
Some(x) == <<x>>

EmptyDict == <<>>
\* dict.get(k, d)
Get(m, k, d) == IF k \in DOMAIN m THEN m[k] ELSE d
\* dict.update(u) on a copy of m
Upd(m, u) == [k \in (DOMAIN m) \cup (DOMAIN u) |-> IF k \in DOMAIN u THEN u[k] ELSE m[k]]

Min(a, b) == IF a < b THEN a ELSE b
Max(a, b) == IF a > b THEN a ELSE b

\* x in list
InSeq(x, s) == \E i \in 1..Len(s) : s[i] = x

-----------------------------------------------------------------------------
(* Bounds of the model *)

\* pipeline invocations (POST /transactions/{id}/analyze) in one behaviour
MaxRuns == 2
\* HITL resolve requests (POST /hitl/{case_id}/resolve) in one behaviour
MaxResolves == 2
\* requests of both kinds in one behaviour when requests come one after the other
MaxRequests == 3
\* exceptions the environment injects (an agent or a store call raising) in
\* one behaviour
MaxFailures == 1

\* requests in flight at once when requests overlap
MaxInFlight == 2
\* requests in one behaviour when requests overlap
MaxOverlapRequests == 3
\* the stage an in-flight pipeline run has reached before another request joins it
OverlapFromStage == 9

-----------------------------------------------------------------------------
(* Names *)

\* build_fraud_detection_graph: the audited nodes, in edge order
StageNames == << "TransactionContext", "BehavioralPattern", "PolicyRAG", "ThreatIntel",
                 "EvidenceAggregation", "DebateProFraud", "DebateProCustomer",
                 "Arbiter", "Explainability" >>

NumStages == Len(StageNames)

\* f"{agent_name}_error"
ErrorName(n) == n \o "_error"

\* "_error" in agent_name
IsErrorAgent(a) == \E i \in 1..NumStages : a = ErrorName(StageNames[i])

DecisionType == {"APPROVE", "CHALLENGE", "BLOCK", "ESCALATE_TO_HUMAN"}

TxnIds == {"T1", "T2"}

\* run_id="hitl-manual" of the audit event a resolution records; pipeline
\* run ids (uuid4) are the positive integers
HitlManualRun == 0

-----------------------------------------------------------------------------
(* Shared evaluation state *)

\* an initial state that already carries a signal
create_initial_state_Seeded(transaction_id, consolidated) ==
    [ transaction_id       |-> transaction_id,
      consolidated         |-> consolidated,
      signals              |-> <<"Dispositivo nuevo">>,
      metrics              |-> EmptyDict,
      citations_internal   |-> <<>>,
      citations_external   |-> <<>>,
      evidence             |-> EmptyDict,
      debate               |-> [ pro_fraud    |-> [recommended_decision |-> "", confidence_delta |-> 0, reasoning |-> ""],
                                 pro_customer |-> [recommended_decision |-> "", confidence_delta |-> 0, reasoning |-> ""] ],
      decision             |-> None,
      confidence           |-> None,
      explanation_customer |-> None,
      explanation_audit    |-> None,
      ai_summary           |-> None,
      hitl                 |-> [required |-> FALSE, reason |-> ""] ]

create_initial_state(transaction_id, consolidated) ==
    [ transaction_id       |-> transaction_id,
      consolidated         |-> consolidated,
      signals              |-> <<>>,
      metrics              |-> EmptyDict,
      citations_internal   |-> <<>>,
      citations_external   |-> <<>>,
      evidence             |-> EmptyDict,
      debate               |-> [ pro_fraud    |-> [recommended_decision |-> "", confidence_delta |-> 0, reasoning |-> ""],
                                 pro_customer |-> [recommended_decision |-> "", confidence_delta |-> 0, reasoning |-> ""] ],
      decision             |-> None,
      confidence           |-> None,
      explanation_customer |-> None,
      explanation_audit    |-> None,
      ai_summary           |-> None,
      hitl                 |-> [required |-> FALSE, reason |-> ""] ]

-----------------------------------------------------------------------------
(* Agents.  Each returns the new state; whether it raises is decided by    *)
(* Raises(...) below and by the environment.                               *)

\* n/d cut to 2 decimals instead of rounded
Round2_Truncated(n, d) == (100 * n) \div d

\* round(n/d, 2) in hundredths, ties to even
Round2(n, d) ==
    LET q == (100 * n) \div d
        r == (100 * n) % d
    IN  IF 2 * r > d THEN q + 1
        ELSE IF 2 * r < d THEN q
        ELSE IF q % 2 = 0 THEN q ELSE q + 1

\* timestamp: <<h>> when datetime.fromisoformat parses it, <<>> when it raises
extract_hour(timestamp) == IF timestamp = None THEN 12 ELSE timestamp[1]

run_transaction_context_agent(state) ==
    LET c == state.consolidated
        hour == extract_hour(c.timestamp)
        \* amount_ratio > 3 on the unrounded quotient (999.0 when the average is 0)
        ratio_gt3 == IF c.usual_amount_avg > 0 THEN c.amount > 3 * c.usual_amount_avg ELSE TRUE
        amount_ratio == IF c.usual_amount_avg > 0 THEN Round2(c.amount, c.usual_amount_avg) ELSE 99900
        hour_outside == hour < c.usual_hours_start \/ hour > c.usual_hours_end
        new_country == c.country \notin c.usual_countries
        new_device == c.device_id \notin c.usual_devices
        s1 == IF ratio_gt3 THEN Append(state.signals, "Monto fuera de rango") ELSE state.signals
        s2 == IF hour_outside THEN Append(s1, "Horario no habitual") ELSE s1
        s3 == IF new_country THEN Append(s2, "Pais no habitual") ELSE s2
        s4 == IF new_device THEN Append(s3, "Dispositivo nuevo") ELSE s3
    IN  [state EXCEPT
            !.metrics = Upd(state.metrics,
                            [amount_ratio |-> amount_ratio, hour |-> hour, hour_outside |-> hour_outside,
                             new_country |-> new_country, new_device |-> new_device]),
            !.signals = s4]

\* a Behavior agent whose amount bands add up instead of excluding each other
run_behavioral_pattern_agent_StackedBands(state) ==
    LET m == state.metrics
        amount_ratio == Get(m, "amount_ratio", 100)
        band == (IF amount_ratio > 500 THEN 35 ELSE 0) + (IF amount_ratio > 300 THEN 25 ELSE 0)
                + (IF amount_ratio > 200 THEN 15 ELSE 0)
        risk == band + (IF Get(m, "hour_outside", FALSE) THEN 15 ELSE 0)
                     + (IF Get(m, "new_device", FALSE) THEN 20 ELSE 0)
                     + (IF Get(m, "new_country", FALSE) THEN 25 ELSE 0)
    IN  [state EXCEPT !.metrics = Upd(m, [behavior_risk |-> Min(100, risk)])]

run_behavioral_pattern_agent(state) ==
    LET m == state.metrics
        amount_ratio == Get(m, "amount_ratio", 100)
        band == IF amount_ratio > 500 THEN 35
                ELSE IF amount_ratio > 300 THEN 25
                ELSE IF amount_ratio > 200 THEN 15 ELSE 0
        risk == band + (IF Get(m, "hour_outside", FALSE) THEN 15 ELSE 0)
                     + (IF Get(m, "new_device", FALSE) THEN 20 ELSE 0)
                     + (IF Get(m, "new_country", FALSE) THEN 25 ELSE 0)
    IN  [state EXCEPT !.metrics = Upd(m, [behavior_risk |-> Min(100, risk)])]

\* One loop iteration of the hint derivation; keywords is the set of decision
\* keywords the rule text contains.
HintStep(policy_hint, keywords) ==
    IF "ESCALATE_TO_HUMAN" \in keywords THEN "ESCALATE_TO_HUMAN"
    ELSE IF "BLOCK" \in keywords THEN (IF policy_hint = "None" THEN "BLOCK" ELSE policy_hint)
    ELSE IF "CHALLENGE" \in keywords THEN (IF policy_hint = "None" THEN "CHALLENGE" ELSE policy_hint)
    ELSE policy_hint

RECURSIVE HintLoop(_, _)
HintLoop(policy_hint, docs) ==
    IF docs = <<>> THEN policy_hint
    ELSE HintLoop(HintStep(policy_hint, Head(docs).keywords), Tail(docs))

\* results: what vector_store.query(query, top_k=2) returned
run_policy_rag_agent(state, results) ==
    [state EXCEPT
        !.citations_internal = [i \in 1..Len(results) |->
                                   [policy_id |-> results[i].policy_id, chunk_id |-> results[i].chunk_id,
                                    version |-> results[i].version]],
        !.metrics = Upd(state.metrics, [policy_hint |-> HintLoop("None", results)])]

\* a ThreatIntel stage that raises the alert whatever the search returned
run_threat_intel_agent_AlwaysAlerts(state, results) ==
    [state EXCEPT
        !.citations_external = results,
        !.signals = Append(state.signals, "Alerta externa")]

\* results: what search_service.search(query) returned
run_threat_intel_agent(state, results) ==
    [state EXCEPT
        !.citations_external = results,
        !.signals = IF results # <<>> THEN Append(state.signals, "Alerta externa") ELSE state.signals]

run_evidence_aggregation_agent(state) ==
    [state EXCEPT !.evidence = [signals |-> state.signals, metrics |-> state.metrics,
                                citations_internal |-> state.citations_internal,
                                citations_external |-> state.citations_external]]

\* a Pro-Fraud fallback with one delta for two signals or more
run_debate_pro_fraud_agent_mock_NoMiddleTier(state) ==
    LET signals == state.signals
        amount_ratio == Get(state.metrics, "amount_ratio", 100)
        n == Len(signals)
    IN  [ recommended_decision |->
              IF InSeq("Alerta externa", signals) /\ amount_ratio > 300 THEN "BLOCK" ELSE "CHALLENGE",
          confidence_delta |-> IF n >= 2 THEN 50 ELSE 0,
          reasoning |->
              IF InSeq("Alerta externa", signals) /\ amount_ratio > 300 THEN "alerta externa con monto elevado"
              ELSE IF InSeq("Monto fuera de rango", signals) /\ InSeq("Horario no habitual", signals)
                   THEN "monto y horario fuera de patrones"
              ELSE "senales requieren verificacion" ]

run_debate_pro_fraud_agent_mock(state) ==
    LET signals == state.signals
        amount_ratio == Get(state.metrics, "amount_ratio", 100)
        n == Len(signals)
    IN  [ recommended_decision |->
              IF InSeq("Alerta externa", signals) /\ amount_ratio > 300 THEN "BLOCK" ELSE "CHALLENGE",
          confidence_delta |-> IF n >= 3 THEN 50 ELSE IF n = 2 THEN 20 ELSE 0,
          reasoning |->
              IF InSeq("Alerta externa", signals) /\ amount_ratio > 300 THEN "alerta externa con monto elevado"
              ELSE IF InSeq("Monto fuera de rango", signals) /\ InSeq("Horario no habitual", signals)
                   THEN "monto y horario fuera de patrones"
              ELSE "senales requieren verificacion" ]

\* result: the dict llm.generate_structured returned
run_debate_pro_fraud_agent_llm(state, result) ==
    [ recommended_decision |-> Get(result, "recommended_decision", "CHALLENGE"),
      confidence_delta     |-> Min(150, Max(0, Get(result, "confidence_delta", 20))),
      reasoning            |-> Get(result, "reasoning", "Analisis de fraude completado.") ]

run_debate_pro_fraud_agent(state, llm, result) ==
    [state EXCEPT !.debate.pro_fraud =
        IF llm THEN run_debate_pro_fraud_agent_llm(state, result)
        ELSE run_debate_pro_fraud_agent_mock(state)]

run_debate_pro_customer_agent_mock(state) ==
    LET signals == state.signals
        all_minor == \A i \in 1..Len(signals) : signals[i] \in {"Horario no habitual", "Dispositivo nuevo"}
        approve == Len(signals) <= 1 /\ (Len(signals) = 0 \/ all_minor)
    IN  [ recommended_decision |-> IF approve THEN "APPROVE" ELSE "CHALLENGE",
          confidence_delta     |-> IF ~InSeq("Alerta externa", signals) THEN 30 ELSE 0,
          reasoning            |-> IF approve THEN "bajo riesgo" ELSE "senales requieren verificacion" ]

run_debate_pro_customer_agent_llm(state, result) ==
    [ recommended_decision |-> Get(result, "recommended_decision", "CHALLENGE"),
      confidence_delta     |-> Min(50, Max(0, Get(result, "confidence_delta", 20))),
      reasoning            |-> Get(result, "reasoning", "Defensa del cliente completada.") ]

run_debate_pro_customer_agent(state, llm, result) ==
    [state EXCEPT !.debate.pro_customer =
        IF llm THEN run_debate_pro_customer_agent_llm(state, result)
        ELSE run_debate_pro_customer_agent_mock(state)]

\* The clamped score of the Arbiter, in thousandths: the debate deltas are in
\* thousandths (a reasoning model may answer any float), metrics and the
\* confidence of the result are in hundredths.
\* an Arbiter that caps the score at 1 only
ArbiterConfidence_NoFloor(state) ==
    LET raw == 10 * Get(state.metrics, "behavior_risk", 0)
               + (IF state.citations_external # <<>> THEN 200 ELSE 0)
               + state.debate.pro_fraud.confidence_delta
               - state.debate.pro_customer.confidence_delta
    IN  Min(1000, raw)

ArbiterConfidence(state) ==
    LET raw == 10 * Get(state.metrics, "behavior_risk", 0)
               + (IF state.citations_external # <<>> THEN 200 ELSE 0)
               + state.debate.pro_fraud.confidence_delta
               - state.debate.pro_customer.confidence_delta
    IN  Max(0, Min(1000, raw))

\* an Arbiter that tries the amount-and-hour rule before the external-alert rule
ArbiterDecision_ChallengeFirst(state) ==
    LET m == state.metrics
        confidence == ArbiterConfidence(state)
        amount_ratio == Get(m, "amount_ratio", 100)
    IN  IF Get(m, "policy_hint", "None") = "ESCALATE_TO_HUMAN"
           /\ Get(m, "new_country", FALSE) /\ Get(m, "new_device", FALSE)
        THEN "ESCALATE_TO_HUMAN"
        ELSE IF amount_ratio > 300 /\ Get(m, "hour_outside", FALSE)
        THEN "CHALLENGE"
        ELSE IF confidence >= 750 /\ InSeq("Alerta externa", state.signals) /\ amount_ratio > 300
        THEN "BLOCK"
        ELSE IF confidence < 450 /\ Len(state.signals) <= 1
        THEN "APPROVE"
        ELSE IF confidence >= 600 THEN "CHALLENGE" ELSE "ESCALATE_TO_HUMAN"

ArbiterDecision(state) ==
    LET m == state.metrics
        confidence == ArbiterConfidence(state)
        amount_ratio == Get(m, "amount_ratio", 100)
    IN  IF Get(m, "policy_hint", "None") = "ESCALATE_TO_HUMAN"
           /\ Get(m, "new_country", FALSE) /\ Get(m, "new_device", FALSE)
        THEN "ESCALATE_TO_HUMAN"
        ELSE IF confidence >= 750 /\ InSeq("Alerta externa", state.signals) /\ amount_ratio > 300
        THEN "BLOCK"
        ELSE IF amount_ratio > 300 /\ Get(m, "hour_outside", FALSE)
        THEN "CHALLENGE"
        ELSE IF confidence < 450 /\ Len(state.signals) <= 1
        THEN "APPROVE"
        ELSE IF confidence >= 600 THEN "CHALLENGE" ELSE "ESCALATE_TO_HUMAN"

ArbiterHitl(state) ==
    LET decision == ArbiterDecision(state)
        confidence == ArbiterConfidence(state)
    IN  IF decision = "ESCALATE_TO_HUMAN"
        THEN [required |-> TRUE, reason |-> "Politica o baja confianza requiere revision humana"]
        ELSE IF 450 <= confidence /\ confidence <= 600
        THEN [required |-> TRUE, reason |-> "Nivel de confianza limite requiere evaluacion manual"]
        ELSE [required |-> FALSE, reason |-> ""]

run_arbiter_agent(state) ==
    [state EXCEPT
        !.decision   = Some(ArbiterDecision(state)),
        !.confidence = Some(Round2(ArbiterConfidence(state), 1000)),
        !.hitl       = ArbiterHitl(state)]

-----------------------------------------------------------------------------
(* Audit repository (one JSONL file per transaction) *)

RECURSIVE InsertBySeq(_, _)
InsertBySeq(e, sorted) ==
    IF sorted = <<>> THEN <<e>>
    ELSE IF Head(sorted).seq <= e.seq THEN <<Head(sorted)>> \o InsertBySeq(e, Tail(sorted))
    ELSE <<e>> \o sorted

RECURSIVE SortedBySeq(_)
\* sorted(events, key=lambda e: e.seq), a stable sort
SortedBySeq(events) ==
    IF events = <<>> THEN <<>>
    ELSE InsertBySeq(events[Len(events)], SortedBySeq(SubSeq(events, 1, Len(events) - 1)))

get_events(file) == SortedBySeq(file)

RECURSIVE MaxSeq(_)
MaxSeq(events) == IF events = <<>> THEN 0 ELSE Max(Head(events).seq, MaxSeq(Tail(events)))

\* a repository that hands out the maximum itself
get_next_seq_NoIncrement(file) ==
    LET events == get_events(file)
    IN  IF events # <<>> THEN MaxSeq(events) ELSE 1

get_next_seq(file) ==
    LET events == get_events(file)
    IN  IF events # <<>> THEN MaxSeq(events) + 1 ELSE 1

append_event(file, event) == Append(file, event)

create_audit_event(transaction_id, run_id, seq, agent, output_json) ==
    [transaction_id |-> transaction_id, run_id |-> run_id, seq |-> seq, agent |-> agent,
     output_json |-> output_json]

-----------------------------------------------------------------------------
(* Explainability *)

FriendlyName(agent) ==
    CASE agent = "TransactionContext"  -> "Context"
      [] agent = "BehavioralPattern"   -> "Behavior"
      [] agent = "PolicyRAG"           -> "RAG"
      [] agent = "ThreatIntel"         -> "Web"
      [] agent = "EvidenceAggregation" -> "Evidence"
      [] agent = "DebateProFraud"      -> "Debate"
      [] agent = "DebateProCustomer"   -> "Debate"
      [] agent = "Arbiter"             -> "Decision"
      [] agent = "Explainability"      -> "Explicacion"
      [] OTHER                         -> agent

RECURSIVE PathLoop(_, _, _)
PathLoop(events, seen, path_parts) ==
    IF events = <<>> THEN path_parts
    ELSE LET agent_name == Head(events).agent
             friendly_name == FriendlyName(agent_name)
         IN  IF IsErrorAgent(agent_name) THEN PathLoop(Tail(events), seen, path_parts)
             ELSE IF friendly_name \notin seen
             THEN PathLoop(Tail(events), seen \cup {friendly_name},
                           IF friendly_name = "Debate" /\ InSeq("Debate", path_parts)
                           THEN path_parts ELSE Append(path_parts, friendly_name))
             ELSE PathLoop(Tail(events), seen, path_parts)

\* file: the transaction's audit file as the agent reads it
build_agent_path(file) == PathLoop(get_events(file), {}, <<>>)

ExplanationAudit(state, agent_path) ==
    [ policies   |-> [i \in 1..Len(state.citations_internal) |-> state.citations_internal[i].policy_id],
      external   |-> state.citations_external # <<>>,
      agent_path |-> agent_path,
      \* the " Resolución HITL: ..." suffixes resolve_hitl_case adds later
      resolutions |-> << >> ]

\* the customer sentence of the rule-based path, keyed by the decision
CustomerSentence(decision) ==
    IF decision = Some("APPROVE") THEN "aprobada"
    ELSE IF decision = Some("CHALLENGE") THEN "requiere validacion adicional"
    ELSE IF decision = Some("BLOCK") THEN "bloqueada"
    ELSE "requiere revision humana"

run_explainability_agent(state, llm, file) ==
    LET agent_path == build_agent_path(file)
    IN  [state EXCEPT
            !.explanation_customer = Some(IF llm THEN "llm text" ELSE CustomerSentence(state.decision)),
            !.explanation_audit    = Some(ExplanationAudit(state, agent_path)),
            !.ai_summary           = Some(IF llm THEN "llm report" ELSE "template report")]

\* int(confidence * 100) of the rule-based report raises TypeError on None
ExplainabilityRaises(state, llm) == ~llm /\ state.confidence = None

-----------------------------------------------------------------------------
(* HITL repository (hitl_cases.json, a list) and decision index            *)

RECURSIVE FirstCase(_, _, _)
\* for case in cases: if case[key] == value: return HitlCase(**case); return None
FirstCase(cases, key, value) ==
    IF cases = <<>> THEN None
    ELSE IF Head(cases)[key] = value THEN Some(Head(cases))
    ELSE FirstCase(Tail(cases), key, value)

get_case(cases, case_id) == FirstCase(cases, "case_id", case_id)

get_case_by_transaction(cases, transaction_id) == FirstCase(cases, "transaction_id", transaction_id)

list_open_cases(cases) == SelectSeq(cases, LAMBDA c : c.status = "OPEN")

\* the list create_case writes back: the list it read, plus the case
create_case_write(cases_read, case) == Append(cases_read, case)

\* the list resolve_case writes back: the list it read with the first case of
\* that id resolved
resolve_case_write(cases_read, case_id, resolution, resolved_at) ==
    LET hit == {i \in 1..Len(cases_read) : cases_read[i].case_id = case_id}
        first == IF hit = {} THEN 0 ELSE CHOOSE i \in hit : \A j \in hit : i <= j
    IN  [i \in 1..Len(cases_read) |->
            IF i = first
            THEN [cases_read[i] EXCEPT !.status = "RESOLVED", !.resolution = Some(resolution),
                                       !.resolved_at = Some(resolved_at)]
            ELSE cases_read[i]]

\* HitlCase(...) of the gate
NewHitlCase(case_id, transaction_id, reason, created_at) ==
    [case_id |-> case_id, transaction_id |-> transaction_id, status |-> "OPEN", reason |-> reason,
     created_at |-> created_at, resolved_at |-> None, resolution |-> None]

\* a gate that creates without looking up
GateCreates_NoLookup(state, cases) ==
    state.hitl.required

\* if state["hitl"]["required"]: existing = get_case_by_transaction(...); if not existing
GateCreates(state, cases) ==
    state.hitl.required /\ get_case_by_transaction(cases, state.transaction_id) = None

\* a route that never answers 400
CaseIsResolved_Never(case) == FALSE

\* if case.status == "RESOLVED": raise HTTPException(status_code=400, ...)
CaseIsResolved(case) == case.status = "RESOLVED"

\* DecisionResponse(...) is a pydantic model: construction raises on a None
\* where a str / float is declared and on a confidence outside [0, 1]
ResponseRaises(final_state) ==
    \/ final_state.decision = None
    \/ final_state.confidence = None
    \/ final_state.explanation_customer = None
    \/ final_state.explanation_audit = None
    \/ final_state.ai_summary = None
    \/ final_state.confidence[1] < 0 \/ final_state.confidence[1] > 100

DecisionResponse(final_state) ==
    [ decision             |-> final_state.decision[1],
      confidence           |-> final_state.confidence[1],
      signals              |-> final_state.signals,
      citations_internal   |-> final_state.citations_internal,
      citations_external   |-> final_state.citations_external,
      explanation_customer |-> final_state.explanation_customer[1],
      explanation_audit    |-> final_state.explanation_audit[1],
      ai_summary           |-> final_state.ai_summary[1],
      hitl                 |-> final_state.hitl ]

\* a route that rewrites the explanations only
UpdatedDecision_KeepsDecision(original, resolution) ==
    [original EXCEPT !.explanation_customer = "Resolucion manual: " \o resolution.notes,
                     !.explanation_audit = [@ EXCEPT !.resolutions = Append(@, resolution)]]

\* the decision resolve_hitl_case stores over the original one
UpdatedDecision(original, resolution) ==
    [original EXCEPT !.decision = resolution.decision,
                     !.explanation_customer = "Resolucion manual: " \o resolution.notes,
                     !.explanation_audit = [@ EXCEPT !.resolutions = Append(@, resolution)]]

-----------------------------------------------------------------------------
(* Inputs: the consolidated view of each ingested transaction and what the  *)
(* collaborators (vector index, governed search, reasoning model) return    *)

Scenario(t) ==
    IF t = "T1"
    THEN \* usual amount and hour, new country and new device, a rule that escalates
         [ consolidated |-> [amount |-> 500, usual_amount_avg |-> 500, timestamp |-> <<10>>,
                             usual_hours_start |-> 8, usual_hours_end |-> 20,
                             country |-> "BR", usual_countries |-> {"PE"},
                             device_id |-> "D-09", usual_devices |-> {"D-01"},
                             merchant_id |-> "M-001"],
           docs    |-> << [policy_id |-> "FP-02", chunk_id |-> "1", version |-> "2025.1",
                           keywords |-> {"ESCALATE_TO_HUMAN"}] >>,
           results |-> << >>,
           llm     |-> FALSE ]
    ELSE \* six times the usual amount at night from a new device, an external alert,
         \* a reasoning model configured
         [ consolidated |-> [amount |-> 3000, usual_amount_avg |-> 500, timestamp |-> <<3>>,
                             usual_hours_start |-> 8, usual_hours_end |-> 20,
                             country |-> "PE", usual_countries |-> {"PE"},
                             device_id |-> "D-09", usual_devices |-> {"D-01"},
                             merchant_id |-> "M-002"],
           docs    |-> << [policy_id |-> "FP-01", chunk_id |-> "1", version |-> "2025.1",
                           keywords |-> {"CHALLENGE"}],
                          [policy_id |-> "FP-03", chunk_id |-> "1", version |-> "2025.1",
                           keywords |-> {"BLOCK"}] >>,
           results |-> << [url |-> "https://alerts.example/m-002", summary |-> "merchant alert"] >>,
           llm     |-> TRUE ]

\* dicts llm.generate_structured returns to the two debate agents ({} on
\* unparsable JSON)
LLMReplies(agent_name) ==
    IF agent_name = "DebateProFraud"
    THEN { EmptyDict,
           [recommended_decision |-> "BLOCK", confidence_delta |-> 123, reasoning |-> "model reasoning"] }
    ELSE IF agent_name = "DebateProCustomer"
    THEN { [recommended_decision |-> "APPROVE", confidence_delta |-> 100, reasoning |-> "model reasoning"] }
    ELSE { EmptyDict }

\* HitlResolution bodies a reviewer sends: the first reviewer approves, the
\* second one blocks
ReviewerDecision(h) == IF h = "h1" THEN "APPROVE" ELSE "BLOCK"
DecisionNotes == {"reviewed"}

\* the transaction the overlapping requests are for
OverlapTxn == "T1"

-----------------------------------------------------------------------------
(* The policy index (rag/vector_store.py, rag/index_policies.py)            *)

\* fraud_policies.json as load_policies returns it: the file the index was
\* built from, and the files an ingest request may find
LoadedPolicies ==
    << [policy_id |-> "FP-01", version |-> "2025.1", keywords |-> {"CHALLENGE"}],
       [policy_id |-> "FP-02", version |-> "2025.1", keywords |-> {"ESCALATE_TO_HUMAN"}] >>

PolicyFiles ==
    { LoadedPolicies,
      << [policy_id |-> "FP-01", version |-> "2025.2", keywords |-> {"CHALLENGE"}],
         [policy_id |-> "FP-02", version |-> "2025.1", keywords |-> {"ESCALATE_TO_HUMAN"}],
         [policy_id |-> "FP-03", version |-> "2025.1", keywords |-> {"BLOCK"}] >>,
      << [policy_id |-> "FP-03", version |-> "2025.1", keywords |-> {"BLOCK"}],
         [policy_id |-> "FP-04", version |-> "2025.1", keywords |-> {}] >> }

\* f"{policy.policy_id}:{policy.version}:1"
DocId(policy) == policy.policy_id \o ":" \o policy.version \o ":1"

\* the documents index_policies builds, one per policy
PolicyDocuments(policies) ==
    [i \in 1..Len(policies) |->
        [doc_id |-> DocId(policies[i]), policy_id |-> policies[i].policy_id, chunk_id |-> "1",
         version |-> policies[i].version, keywords |-> policies[i].keywords]]

\* VectorStore.upsert_documents: collection.upsert replaces by id
upsert_documents(collection, docs) ==
    {d \in collection : \A i \in 1..Len(docs) : docs[i].doc_id # d.doc_id}
    \cup {docs[i] : i \in 1..Len(docs)}

\* VectorStore.clear: delete_collection, then get_or_create_collection
clear(collection) == {}

\* VectorStore.query: the top_k stored documents in some order of similarity
query(collection, top_k) ==
    { results \in UNION { [1..n -> collection] : n \in 0..top_k } :
         /\ Len(results) = Min(top_k, Cardinality(collection))
         /\ \A i, j \in 1..Len(results) : results[i] = results[j] => i = j }

\* the collection after the ingest that preceded the requests
IngestedIndex ==
    [ collection |-> upsert_documents({}, PolicyDocuments(LoadedPolicies)),
      pc         |-> "idle",
      policies   |-> << >> ]

-----------------------------------------------------------------------------
(* State *)

VARIABLES
    audit,        \* audit[t]: the lines of audit/<t>.jsonl, in file order
    cases,        \* hitl_cases.json
    decisions,    \* decisions_index.json: transaction id -> None | Some(DecisionResponse)
    run,          \* run[p]: one analyze request (run_fraud_detection and its caller)
    res,          \* res[h]: one resolve request (resolve_hitl_case)
    clock,        \* datetime.now(): strictly later at each reading
    issued,       \* what has been issued so far: run ids, case ids, requests, injected exceptions
    index         \* the "fraud_policies" collection and the ingest request that rebuilds it

vars == <<audit, cases, decisions, run, res, clock, issued, index>>

Procs == {"p1", "p2"}
Resolvers == {"h1", "h2"}

\* case ids a resolve request may name: the first case the gate issues, and
\* another one, which is unknown unless a second case has been created
CaseIds == {1, 2}

IdleRun ==
    [ pc |-> "idle", txn |-> "", run_id |-> 0, stage |-> 0, state |-> None, seq |-> 0, raised |-> {},
      case |-> None, cases_read |-> <<>>, data_read |-> <<>>, response |-> None, outcome |-> "none",
      args |-> <<>> ]

IdleRes ==
    [ pc |-> "idle", case_id |-> 0, resolution |-> None, case |-> None, resolved_at |-> 0,
      cases_read |-> <<>>, seq |-> 0, original |-> None, data_read |-> <<>>, outcome |-> "none" ]

Init ==
    /\ audit = [t \in TxnIds |-> <<>>]
    /\ cases = <<>>
    /\ decisions = [t \in TxnIds |-> None]
    /\ run = [p \in Procs |-> IdleRun]
    /\ res = [h \in Resolvers |-> IdleRes]
    /\ clock = 0
    /\ issued = [runs |-> 0, cases |-> 0, resolves |-> 0, failures |-> 0]
    /\ index = IngestedIndex

RunQuiet(p) == run[p].pc \in {"idle", "done"}
ResQuiet(h) == res[h].pc \in {"idle", "done"}
\* no request is in flight
Quiet == (\A p \in Procs : RunQuiet(p)) /\ (\A h \in Resolvers : ResQuiet(h))

-----------------------------------------------------------------------------
(* The audit wrapper around an agent *)

\* agent_fn(state, ...) of the node at this stage
AgentResult(agent_name, state, sc, reply, file) ==
    CASE agent_name = "TransactionContext"  -> run_transaction_context_agent(state)
      [] agent_name = "BehavioralPattern"   -> run_behavioral_pattern_agent(state)
      [] agent_name = "PolicyRAG"           -> run_policy_rag_agent(state, sc.docs)
      [] agent_name = "ThreatIntel"         -> run_threat_intel_agent(state, sc.results)
      [] agent_name = "EvidenceAggregation" -> run_evidence_aggregation_agent(state)
      [] agent_name = "DebateProFraud"      -> run_debate_pro_fraud_agent(state, sc.llm, reply)
      [] agent_name = "DebateProCustomer"   -> run_debate_pro_customer_agent(state, sc.llm, reply)
      [] agent_name = "Arbiter"             -> run_arbiter_agent(state)
      [] agent_name = "Explainability"      -> run_explainability_agent(state, sc.llm, file)

\* the agent raises by itself, whatever the environment does
AgentRaises(agent_name, state, sc) ==
    agent_name = "Explainability" /\ ExplainabilityRaises(state, sc.llm)

\* the state `wrapped` returns
WrappedState(agent_name, state, raised, new_state) ==
    IF raised
    THEN [state EXCEPT !.decision = Some("ESCALATE_TO_HUMAN"),
                       !.hitl = [required |-> TRUE, reason |-> "agent_error:" \o agent_name]]
    ELSE new_state

\* a wrapper that records a failure under the agent's own name
WrappedEvent_NoSuffix(agent_name, run_id, seq, state, raised, new_state) ==
    IF raised
    THEN create_audit_event(state.transaction_id, run_id, seq, agent_name,
                            [error |-> "exception message"])
    ELSE create_audit_event(state.transaction_id, run_id, seq, agent_name,
                            [signals |-> new_state.signals, metrics |-> new_state.metrics,
                             decision |-> new_state.decision])

\* the audit event `wrapped` appends
WrappedEvent(agent_name, run_id, seq, state, raised, new_state) ==
    IF raised
    THEN create_audit_event(state.transaction_id, run_id, seq, ErrorName(agent_name),
                            [error |-> "exception message"])
    ELSE create_audit_event(state.transaction_id, run_id, seq, agent_name,
                            [signals |-> new_state.signals, metrics |-> new_state.metrics,
                             decision |-> new_state.decision])

\* the node that follows stage i on the graph's edges
NextNode(i) == IF i < NumStages THEN "seq" ELSE "gate"

-----------------------------------------------------------------------------
(* analyze_transaction: run_fraud_detection, then save_decision *)

StartRun(p, t) ==
    /\ RunQuiet(p)
    /\ issued.runs < MaxRuns
    /\ run' = [run EXCEPT ![p] = [IdleRun EXCEPT !.pc = "seq", !.txn = t, !.run_id = issued.runs + 1,
                                                 !.stage = 1,
                                                 !.state = create_initial_state(t, Scenario(t).consolidated)]]
    /\ issued' = [issued EXCEPT !.runs = @ + 1]
    /\ UNCHANGED <<audit, cases, decisions, res, clock>>

\* seq = deps.audit_repo.get_next_seq(transaction_id)
GetNextSeq(p) ==
    /\ run[p].pc = "seq"
    /\ run' = [run EXCEPT ![p].seq = get_next_seq(audit[run[p].txn]), ![p].pc = "exec"]
    /\ UNCHANGED <<audit, cases, decisions, res, clock, issued>>

\* try: new_state = agent_fn(state); append_event(event)
\* except: append_event(error_event); force escalation
ExecStage(p) ==
    /\ run[p].pc = "exec"
    /\ LET r == run[p]
           agent_name == StageNames[r.stage]
           sc == Scenario(r.txn)
           asks_model == sc.llm /\ agent_name \in {"DebateProFraud", "DebateProCustomer"}
       IN  \E fail \in BOOLEAN, reply \in (IF asks_model THEN LLMReplies(agent_name) ELSE {EmptyDict}) :
              /\ fail => issued.failures < MaxFailures
              /\ LET raised == fail \/ AgentRaises(agent_name, r.state, sc)
                     new_state == AgentResult(agent_name, r.state, sc, reply, audit[r.txn])
                 IN  /\ audit' = [audit EXCEPT ![r.txn] =
                                    append_event(@, WrappedEvent(agent_name, r.run_id, r.seq, r.state,
                                                                 raised, new_state))]
                     /\ run' = [run EXCEPT ![p].state = WrappedState(agent_name, r.state, raised, new_state),
                                           ![p].raised = IF raised THEN @ \cup {agent_name} ELSE @,
                                           ![p].pc = NextNode(r.stage),
                                           ![p].stage = IF r.stage < NumStages THEN r.stage + 1 ELSE r.stage]
              /\ issued' = [issued EXCEPT !.failures = IF fail THEN @ + 1 ELSE @]
    /\ UNCHANGED <<cases, decisions, res, clock>>

\* hitl_gate up to and including HitlCase(...); a store call that raises
\* propagates out of app.invoke
HitlGate(p) ==
    /\ run[p].pc = "gate"
    /\ LET r == run[p]
       IN  IF ~r.state.hitl.required
           THEN /\ run' = [run EXCEPT ![p].pc = "respond"]
                /\ UNCHANGED <<clock, issued>>
           ELSE \E fail \in BOOLEAN :
                  /\ fail => issued.failures < MaxFailures
                  /\ IF fail
                     THEN /\ run' = [run EXCEPT ![p].pc = "done", ![p].outcome = "store_raised"]
                          /\ issued' = [issued EXCEPT !.failures = @ + 1]
                          /\ UNCHANGED clock
                     ELSE IF GateCreates(r.state, cases)
                     THEN /\ run' = [run EXCEPT ![p].pc = "create_read",
                                                ![p].case = Some(NewHitlCase(issued.cases + 1, r.txn,
                                                                             r.state.hitl.reason, clock))]
                          /\ issued' = [issued EXCEPT !.cases = @ + 1]
                          /\ clock' = clock + 1
                     ELSE /\ run' = [run EXCEPT ![p].pc = "respond"]
                          /\ UNCHANGED <<clock, issued>>
    /\ UNCHANGED <<audit, cases, decisions, res>>

\* create_case: cases = self._read_cases()
CreateCaseRead(p) ==
    /\ run[p].pc = "create_read"
    /\ run' = [run EXCEPT ![p].cases_read = cases, ![p].pc = "create_write"]
    /\ UNCHANGED <<audit, cases, decisions, res, clock, issued>>

\* create_case: cases.append(case); self._write_cases(cases)
CreateCaseWrite(p) ==
    /\ run[p].pc = "create_write"
    /\ cases' = create_case_write(run[p].cases_read, run[p].case[1])
    /\ run' = [run EXCEPT ![p].pc = "respond", ![p].cases_read = <<>>, ![p].case = None]
    /\ UNCHANGED <<audit, decisions, res, clock, issued>>

\* return DecisionResponse(...)
Respond(p) ==
    /\ run[p].pc = "respond"
    /\ IF ResponseRaises(run[p].state)
       THEN run' = [run EXCEPT ![p].pc = "done", ![p].outcome = "raised"]
       ELSE run' = [run EXCEPT ![p].pc = "save_read", ![p].outcome = "returned",
                               ![p].response = Some(DecisionResponse(run[p].state))]
    /\ UNCHANGED <<audit, cases, decisions, res, clock, issued>>

\* save_decision: data = self._read_json(self.decisions_file)
SaveDecisionRead(p) ==
    /\ run[p].pc = "save_read"
    /\ run' = [run EXCEPT ![p].data_read = decisions, ![p].pc = "save_write"]
    /\ UNCHANGED <<audit, cases, decisions, res, clock, issued>>

\* save_decision: data[transaction_id] = decision; self._write_json(...)
SaveDecisionWrite(p) ==
    /\ run[p].pc = "save_write"
    /\ decisions' = [run[p].data_read EXCEPT ![run[p].txn] = run[p].response]
    /\ run' = [run EXCEPT ![p].pc = "done", ![p].data_read = <<>>]
    /\ UNCHANGED <<audit, cases, res, clock, issued>>

-----------------------------------------------------------------------------
(* resolve_hitl_case *)

StartResolve(h, case_id, decision, notes) ==
    /\ ResQuiet(h)
    /\ issued.resolves < MaxResolves
    /\ res' = [res EXCEPT ![h] = [IdleRes EXCEPT !.pc = "get_case", !.case_id = case_id,
                                                 !.resolution = Some([decision |-> decision, notes |-> notes])]]
    /\ issued' = [issued EXCEPT !.resolves = @ + 1]
    /\ UNCHANGED <<audit, cases, decisions, run, clock>>

\* case = hitl_repo.get_case(case_id); 404 / 400; resolved_at = now()
ResolveGetCase(h) ==
    /\ res[h].pc = "get_case"
    /\ LET case == get_case(cases, res[h].case_id)
       IN  IF case = None
           THEN /\ res' = [res EXCEPT ![h] = [IdleRes EXCEPT !.pc = "done", !.outcome = "404"]]
                /\ UNCHANGED clock
           ELSE IF CaseIsResolved(case[1])
           THEN /\ res' = [res EXCEPT ![h] = [IdleRes EXCEPT !.pc = "done", !.outcome = "400"]]
                /\ UNCHANGED clock
           ELSE /\ res' = [res EXCEPT ![h].pc = "resolve_read", ![h].case = case, ![h].resolved_at = clock]
                /\ clock' = clock + 1
    /\ UNCHANGED <<audit, cases, decisions, run, issued>>

\* resolve_case: cases = self._read_cases()
ResolveCaseRead(h) ==
    /\ res[h].pc = "resolve_read"
    /\ res' = [res EXCEPT ![h].cases_read = cases, ![h].pc = "resolve_write"]
    /\ UNCHANGED <<audit, cases, decisions, run, clock, issued>>

\* resolve_case: the loop, then self._write_cases(cases)
ResolveCaseWrite(h) ==
    /\ res[h].pc = "resolve_write"
    /\ cases' = resolve_case_write(res[h].cases_read, res[h].case_id, res[h].resolution[1], res[h].resolved_at)
    /\ res' = [res EXCEPT ![h].pc = "audit_seq", ![h].cases_read = <<>>]
    /\ UNCHANGED <<audit, decisions, run, clock, issued>>

\* seq = audit_repo.get_next_seq(case.transaction_id)
ResolveGetNextSeq(h) ==
    /\ res[h].pc = "audit_seq"
    /\ res' = [res EXCEPT ![h].seq = get_next_seq(audit[res[h].case[1].transaction_id]), ![h].pc = "audit_append"]
    /\ UNCHANGED <<audit, cases, decisions, run, clock, issued>>

\* audit_repo.append_event(audit_event)
ResolveAppendEvent(h) ==
    /\ res[h].pc = "audit_append"
    /\ LET t == res[h].case[1].transaction_id
       IN  audit' = [audit EXCEPT ![t] =
                        append_event(@, create_audit_event(t, HitlManualRun, res[h].seq, "HITL",
                                                           res[h].resolution[1]))]
    /\ res' = [res EXCEPT ![h].pc = "get_decision"]
    /\ UNCHANGED <<cases, decisions, run, clock, issued>>

\* original_decision = txn_repo.get_decision(case.transaction_id)
ResolveGetDecision(h) ==
    /\ res[h].pc = "get_decision"
    /\ LET original == decisions[res[h].case[1].transaction_id]
       IN  res' = [res EXCEPT ![h].original = original,
                              ![h].pc = IF original = None THEN "return" ELSE "save_read"]
    /\ UNCHANGED <<audit, cases, decisions, run, clock, issued>>

\* save_decision: data = self._read_json(self.decisions_file)
ResolveSaveRead(h) ==
    /\ res[h].pc = "save_read"
    /\ res' = [res EXCEPT ![h].data_read = decisions, ![h].pc = "save_write"]
    /\ UNCHANGED <<audit, cases, decisions, run, clock, issued>>

\* save_decision: data[transaction_id] = updated_decision; self._write_json(...)
ResolveSaveWrite(h) ==
    /\ res[h].pc = "save_write"
    /\ decisions' = [res[h].data_read EXCEPT ![res[h].case[1].transaction_id] =
                        Some(UpdatedDecision(res[h].original[1], res[h].resolution[1]))]
    /\ res' = [res EXCEPT ![h].pc = "return", ![h].data_read = <<>>]
    /\ UNCHANGED <<audit, cases, run, clock, issued>>

\* return hitl_repo.get_case(case_id)
ResolveReturn(h) ==
    /\ res[h].pc = "return"
    /\ res' = [res EXCEPT ![h] = [IdleRes EXCEPT !.pc = "done", !.outcome = "200"]]
    /\ UNCHANGED <<audit, cases, decisions, run, clock, issued>>

-----------------------------------------------------------------------------
(* Specifications *)

RunStep(p) ==
    \/ GetNextSeq(p)
    \/ ExecStage(p)
    \/ HitlGate(p)
    \/ CreateCaseRead(p)
    \/ CreateCaseWrite(p)
    \/ Respond(p)
    \/ SaveDecisionRead(p)
    \/ SaveDecisionWrite(p)

ResolveStep(h) ==
    \/ ResolveGetCase(h)
    \/ ResolveCaseRead(h)
    \/ ResolveCaseWrite(h)
    \/ ResolveGetNextSeq(h)
    \/ ResolveAppendEvent(h)
    \/ ResolveGetDecision(h)
    \/ ResolveSaveRead(h)
    \/ ResolveSaveWrite(h)
    \/ ResolveReturn(h)

\* Requests arrive one after the other: a request starts when none is in flight.
Next ==
    \/ \E t \in TxnIds :
          /\ Quiet
          /\ issued.runs + issued.resolves < MaxRequests
          /\ StartRun("p1", t)
          /\ UNCHANGED index
    \/ \E c \in CaseIds, n \in DecisionNotes :
          /\ Quiet
          /\ issued.runs + issued.resolves < MaxRequests
          /\ StartResolve("h1", c, ReviewerDecision("h1"), n)
          /\ UNCHANGED index
    \/ \E p \in Procs : RunStep(p) /\ UNCHANGED index
    \/ \E h \in Resolvers : ResolveStep(h) /\ UNCHANGED index

Spec == Init /\ [][Next]_vars

\* requests in flight
InFlight == Cardinality({p \in Procs : ~RunQuiet(p)}) + Cardinality({h \in Resolvers : ~ResQuiet(h)})

\* a request is served by the first free slot
FirstFreeRun(p) == RunQuiet(p) /\ (p = "p2" => ~RunQuiet("p1"))
FirstFreeRes(h) == ResQuiet(h) /\ (h = "h2" => ~ResQuiet("h1"))

\* run p has passed the stage from which the model lets another request join it
Late(p) == RunQuiet(p) \/ run[p].pc \notin {"seq", "exec"} \/ run[p].stage >= OverlapFromStage

\* Requests overlap: a request may start while another one is in flight (a
\* pipeline run is joined in its last stages only).  The requests are for one
\* transaction and no exception is injected.
NextOverlap ==
    \/ \E p \in Procs :
          /\ InFlight < MaxInFlight
          /\ issued.runs + issued.resolves < MaxOverlapRequests
          /\ FirstFreeRun(p)
          /\ \A q \in Procs : Late(q)
          /\ StartRun(p, OverlapTxn)
          /\ UNCHANGED index
    \/ \E h \in Resolvers, c \in CaseIds, n \in DecisionNotes :
          /\ InFlight < MaxInFlight
          /\ issued.runs + issued.resolves < MaxOverlapRequests
          /\ FirstFreeRes(h)
          /\ \A q \in Procs : Late(q)
          /\ StartResolve(h, c, ReviewerDecision(h), n)
          /\ UNCHANGED index
    \/ \E p \in Procs : RunStep(p) /\ issued'.failures = issued.failures /\ UNCHANGED index
    \/ \E h \in Resolvers : ResolveStep(h) /\ UNCHANGED index

SpecOverlap == Init /\ [][NextOverlap]_vars

-----------------------------------------------------------------------------
(* analyze_all_pending: one get_dependencies(), then the pipeline for every  *)
(* transaction without a stored decision, in the order of _transactions      *)

\* _transactions.keys()
TxnOrder == << "T1", "T2" >>

\* pending_transactions
PendingTransactions(data) == SelectSeq(TxnOrder, LAMBDA t : data[t] = None)

\* deps = get_dependencies(settings) draws the run_id; the loop then calls
\* run_fraud_detection(txn_id, ..., deps) for the first pending transaction
StartBulk(p) ==
    /\ RunQuiet(p)
    /\ issued.runs < MaxRuns
    /\ PendingTransactions(decisions) # << >>
    /\ LET pending == PendingTransactions(decisions)
       IN  run' = [run EXCEPT ![p] = [IdleRun EXCEPT
                                         !.pc = "seq", !.txn = Head(pending), !.run_id = issued.runs + 1,
                                         !.stage = 1,
                                         !.state = create_initial_state(Head(pending),
                                                                        Scenario(Head(pending)).consolidated),
                                         !.args = Tail(pending)]]
    /\ issued' = [issued EXCEPT !.runs = @ + 1]
    /\ UNCHANGED <<audit, cases, decisions, res, clock>>

\* the next iteration of the loop, after the decision was saved or the
\* exception of the previous transaction was logged: same deps
BulkContinue(p) ==
    /\ run[p].pc = "done"
    /\ run[p].args # << >>
    /\ run' = [run EXCEPT ![p] = [IdleRun EXCEPT
                                     !.pc = "seq", !.txn = Head(run[p].args), !.run_id = run[p].run_id,
                                     !.stage = 1,
                                     !.state = create_initial_state(Head(run[p].args),
                                                                    Scenario(Head(run[p].args)).consolidated),
                                     !.args = Tail(run[p].args)]]
    /\ issued' = [issued EXCEPT !.runs = @ + 1]
    /\ UNCHANGED <<audit, cases, decisions, res, clock>>

\* no bulk analysis is between two transactions
BulkQuiet == \A p \in Procs : run[p].args = << >>

\* Single and bulk analyses, one request after the other.
NextBulk ==
    \/ \E t \in TxnIds : Quiet /\ BulkQuiet /\ StartRun("p1", t) /\ UNCHANGED index
    \/ Quiet /\ BulkQuiet /\ StartBulk("p1") /\ UNCHANGED index
    \/ \E p \in Procs : BulkContinue(p) /\ UNCHANGED index
    \/ \E p \in Procs : RunStep(p) /\ UNCHANGED index

SpecBulk == Init /\ [][NextBulk]_vars

-----------------------------------------------------------------------------
(* The Arbiter on its own: run_arbiter_agent applied to a state built the   *)
(* way tests/test_arbiter.py builds one (any metrics, signals, debate)       *)

\* behavior_risk values (hundredths) and debate deltas (thousandths)
RiskValues == {0, 25, 45, 50, 60, 75}
FraudDeltas == {0, 4, 50, 150}
CustomerDeltas == {0, 30, 50}
HintValues == {"None", "CHALLENGE", "ESCALATE_TO_HUMAN"}
RatioValues == {200, 350, 600}
SignalLists ==
    { << >>,
      << "Monto fuera de rango" >>,
      << "Monto fuera de rango", "Alerta externa" >>,
      << "Pais no habitual", "Dispositivo nuevo", "Alerta externa" >> }

ArbiterInput(risk, hint, ratio, hour_outside, new_country, new_device, signals, external, df, dc) ==
    [ create_initial_state("T1", Scenario("T1").consolidated) EXCEPT
        !.signals = signals,
        !.metrics = [behavior_risk |-> risk, policy_hint |-> hint, amount_ratio |-> ratio,
                     hour_outside |-> hour_outside, new_country |-> new_country,
                     new_device |-> new_device],
        !.citations_external = IF external THEN Scenario("T2").results ELSE << >>,
        !.debate = [ pro_fraud    |-> [recommended_decision |-> "CHALLENGE", confidence_delta |-> df,
                                       reasoning |-> ""],
                     pro_customer |-> [recommended_decision |-> "APPROVE", confidence_delta |-> dc,
                                       reasoning |-> ""] ] ]

InitArbiter ==
    /\ audit = [t \in TxnIds |-> <<>>]
    /\ cases = <<>>
    /\ decisions = [t \in TxnIds |-> None]
    /\ res = [h \in Resolvers |-> IdleRes]
    /\ clock = 0
    /\ issued = [runs |-> 0, cases |-> 0, resolves |-> 0, failures |-> 0]
    /\ index = IngestedIndex
    /\ \E risk \in RiskValues, hint \in HintValues, ratio \in RatioValues,
          hour_outside \in BOOLEAN, new_country \in BOOLEAN, new_device \in BOOLEAN,
          signals \in SignalLists, external \in BOOLEAN, df \in FraudDeltas, dc \in CustomerDeltas :
          run = [p \in Procs |->
                    IF p = "p1"
                    THEN [IdleRun EXCEPT !.pc = "arbiter", !.txn = "T1",
                                         !.state = ArbiterInput(risk, hint, ratio, hour_outside, new_country,
                                                                new_device, signals, external, df, dc)]
                    ELSE IdleRun]

\* result = run_arbiter_agent(state)
ArbiterCall(p) ==
    /\ run[p].pc = "arbiter"
    /\ run' = [run EXCEPT ![p].state = run_arbiter_agent(run[p].state), ![p].pc = "arbiter_done"]
    /\ UNCHANGED <<audit, cases, decisions, res, clock, issued>>

NextArbiter == \E p \in Procs : ArbiterCall(p) /\ UNCHANGED index

SpecArbiter == InitArbiter /\ [][NextArbiter]_vars

-----------------------------------------------------------------------------
(* PolicyRAG on its own: run_policy_rag_agent applied to the state the      *)
(* Context stage produced, for every list vector_store.query can return     *)

\* top_k of vector_store.query(query, top_k=2)
TopK == 2

Keywords == {"CHALLENGE", "BLOCK", "ESCALATE_TO_HUMAN"}

\* the i-th returned document, its text holding the keywords ks
RuleDoc(i, ks) ==
    [policy_id |-> IF i = 1 THEN "FP-01" ELSE "FP-02", chunk_id |-> "1", version |-> "2025.1",
     keywords |-> ks]

\* every answer of the vector index: at most TopK documents, any keywords
QueryResults ==
    UNION { { [i \in 1..n |-> RuleDoc(i, f[i])] : f \in [1..n -> SUBSET Keywords] } : n \in 0..TopK }

\* everything but the run under test
StoresEmpty ==
    /\ audit = [t \in TxnIds |-> <<>>]
    /\ cases = <<>>
    /\ decisions = [t \in TxnIds |-> None]
    /\ res = [h \in Resolvers |-> IdleRes]
    /\ clock = 0
    /\ issued = [runs |-> 0, cases |-> 0, resolves |-> 0, failures |-> 0]
    /\ index = IngestedIndex

InitPolicyRAG ==
    /\ StoresEmpty
    /\ \E t \in TxnIds, results \in QueryResults :
          run = [p \in Procs |->
                    IF p = "p1"
                    THEN [IdleRun EXCEPT
                             !.pc = "policy_rag", !.txn = t,
                             !.state = run_transaction_context_agent(
                                           create_initial_state(t, Scenario(t).consolidated)),
                             !.args = results]
                    ELSE IdleRun]

\* result = run_policy_rag_agent(state, vector_store)
PolicyRAGCall(p) ==
    /\ run[p].pc = "policy_rag"
    /\ run' = [run EXCEPT ![p].state = run_policy_rag_agent(run[p].state, run[p].args),
                          ![p].pc = "policy_rag_done"]
    /\ UNCHANGED <<audit, cases, decisions, res, clock, issued>>

NextPolicyRAG == \E p \in Procs : PolicyRAGCall(p) /\ UNCHANGED index

SpecPolicyRAG == InitPolicyRAG /\ [][NextPolicyRAG]_vars

-----------------------------------------------------------------------------
(* The agents in graph order on their own, the way the tests call them, for  *)
(* every transaction, customer profile and collaborator answer               *)

\* tests/test_context_agent.py get_consolidated_data and its overrides:
\* the profile is 08..20 h, {"PE"}, {"D-01"}; timestamp <<>> does not parse
Amounts == {900, 901, 1000, 2000}
Averages == {0, 300, 500}
Timestamps == {None, <<3>>, <<8>>, <<20>>, <<21>>}
Countries == {"PE", "BR"}
Devices == {"D-01", "D-09"}

Consolidated(amount, usual_amount_avg, timestamp, country, device_id) ==
    [amount |-> amount, usual_amount_avg |-> usual_amount_avg, timestamp |-> timestamp,
     usual_hours_start |-> 8, usual_hours_end |-> 20,
     country |-> country, usual_countries |-> {"PE"},
     device_id |-> device_id, usual_devices |-> {"D-01"},
     merchant_id |-> "M-001"]

\* what search_service.search(query) can return: nothing, one or two results
SearchResults ==
    { << >>,
      << [url |-> "https://alerts.example/m-001", summary |-> "merchant alert"] >>,
      << [url |-> "https://alerts.example/m-001", summary |-> "merchant alert"],
         [url |-> "https://news.example/fraud", summary |-> "campaign"] >> }

InitStages ==
    /\ StoresEmpty
    /\ \E amount \in Amounts, usual_amount_avg \in Averages, timestamp \in Timestamps,
          country \in Countries, device_id \in Devices, t \in TxnIds,
          results \in SearchResults, llm \in BOOLEAN :
          LET consolidated == Consolidated(amount, usual_amount_avg, timestamp, country, device_id)
          IN  run = [p \in Procs |->
                        IF p = "p1"
                        THEN [IdleRun EXCEPT
                                 !.pc = "stage", !.txn = "T1", !.stage = 1,
                                 !.state = create_initial_state("T1", consolidated),
                                 !.args = [consolidated |-> consolidated, docs |-> Scenario(t).docs,
                                           results |-> results, llm |-> llm]]
                        ELSE IdleRun]

\* what generate_structured hands either debate agent: a parsed answer, or {}
\* when json.loads failed
StructuredReplies(agent_name) == LLMReplies(agent_name) \cup {EmptyDict}

\* state = agent_fn(state, ...) for the next agent on the graph's edges
StageCall(p) ==
    /\ run[p].pc = "stage"
    /\ LET r == run[p]
           agent_name == StageNames[r.stage]
           asks_model == r.args.llm /\ agent_name \in {"DebateProFraud", "DebateProCustomer"}
       IN  \E reply \in (IF asks_model THEN StructuredReplies(agent_name) ELSE {EmptyDict}) :
              run' = [run EXCEPT
                         ![p].state = WrappedState(agent_name, r.state,
                                                   AgentRaises(agent_name, r.state, r.args),
                                                   AgentResult(agent_name, r.state, r.args, reply,
                                                               audit[r.txn])),
                         ![p].pc = IF r.stage < NumStages THEN "stage" ELSE "stages_done",
                         ![p].stage = IF r.stage < NumStages THEN r.stage + 1 ELSE r.stage]
    /\ UNCHANGED <<audit, cases, decisions, res, clock, issued>>

NextStages == \E p \in Procs : StageCall(p) /\ UNCHANGED index

SpecStages == InitStages /\ [][NextStages]_vars

-----------------------------------------------------------------------------
(* The Behavior agent on its own: run_behavioral_pattern_agent applied to    *)
(* any metrics the Context stage can leave (or none), then to its own output *)

\* metrics.amount_ratio in hundredths around the band limits; <<>>: key absent
BandRatios == {None, <<100>>, <<200>>, <<201>>, <<300>>, <<301>>, <<500>>, <<501>>, <<99900>>}

BehaviorInput(ratio, hour_outside, new_device, new_country, signals, t) ==
    [ create_initial_state(t, Scenario(t).consolidated) EXCEPT
        !.signals = signals,
        !.metrics = IF ratio = None
                    THEN [hour_outside |-> hour_outside, new_device |-> new_device,
                          new_country |-> new_country]
                    ELSE [amount_ratio |-> ratio[1], hour_outside |-> hour_outside,
                          new_device |-> new_device, new_country |-> new_country] ]

InitBehavior ==
    /\ StoresEmpty
    /\ \E ratio \in BandRatios, hour_outside \in BOOLEAN, new_device \in BOOLEAN,
          new_country \in BOOLEAN, signals \in SignalLists, t \in TxnIds :
          run = [p \in Procs |->
                    IF p = "p1"
                    THEN [IdleRun EXCEPT
                             !.pc = "behavior", !.txn = t,
                             !.state = BehaviorInput(ratio, hour_outside, new_device, new_country,
                                                     signals, t)]
                    ELSE IdleRun]

\* result = run_behavioral_pattern_agent(state)
BehaviorCall(p) ==
    /\ run[p].pc = "behavior"
    /\ run' = [run EXCEPT ![p].state = run_behavioral_pattern_agent(run[p].state),
                          ![p].pc = "behavior_done"]
    /\ UNCHANGED <<audit, cases, decisions, res, clock, issued>>

\* run_behavioral_pattern_agent(result)
BehaviorAgain(p) ==
    /\ run[p].pc = "behavior_done"
    /\ run' = [run EXCEPT ![p].state = run_behavioral_pattern_agent(run[p].state),
                          ![p].pc = "behavior_again"]
    /\ UNCHANGED <<audit, cases, decisions, res, clock, issued>>

NextBehavior == \E p \in Procs : (BehaviorCall(p) \/ BehaviorAgain(p)) /\ UNCHANGED index

SpecBehavior == InitBehavior /\ [][NextBehavior]_vars

-----------------------------------------------------------------------------
(* Governed search (web/allowlist.py, web/governed_search.py) and the       *)
(* ThreatIntel node that calls it.  A URL is its network location           *)
(* (urlparse(url).netloc) as the sequence of its labels and of the           *)
(* separators ".", ":" and "@"; scheme and path play no part.                *)

\* settings.WEB_MAX_RESULTS
WEB_MAX_RESULTS == 3

\* settings.WEB_ALLOWLIST_DOMAINS = "example.com,owasp.org,mitre.org"
AllowlistDomains ==
    { <<"example", ".", "com">>, <<"owasp", ".", "org">>, <<"mitre", ".", "org">> }

\* domain.split(":")[0]: the text before the first ":" (all of it without one)
RECURSIVE BeforeColon(_)
BeforeColon(netloc) ==
    IF netloc = <<>> \/ Head(netloc) = ":" THEN <<>>
    ELSE <<Head(netloc)>> \o BeforeColon(Tail(netloc))

\* text.endswith(suffix)
EndsWith(text, suffix) ==
    /\ Len(suffix) <= Len(text)
    /\ SubSeq(text, Len(text) - Len(suffix) + 1, Len(text)) = suffix

\* Allowlist.is_allowed
is_allowed(domains, netloc) ==
    LET domain == BeforeColon(netloc)
    IN  \/ domain \in domains
        \/ \E allowed \in domains : EndsWith(domain, <<".">> \o allowed)

\* results[:max_results]
Limit(results, max_results) == SubSeq(results, 1, Min(max_results, Len(results)))

\* MockSearchProvider.MOCK_ALERTS, in dict order
MOCK_ALERTS ==
    << [pattern |-> "M-FRAUD",
        alerts  |-> << [url |-> <<"example", ".", "com">>, summary |-> "fraud ring"],
                       [url |-> <<"owasp", ".", "org">>, summary |-> "security alert"] >>],
       [pattern |-> "M-SUSPICIOUS",
        alerts  |-> << [url |-> <<"mitre", ".", "org">>, summary |-> "CVE"] >>] >>

RECURSIVE MockMatches(_, _, _)
\* the two nested loops of MockSearchProvider.search; patterns: the known
\* patterns that occur in query.upper()
MockMatches(domains, patterns, table) ==
    IF table = <<>> THEN <<>>
    ELSE (IF Head(table).pattern \in patterns
          THEN SelectSeq(Head(table).alerts, LAMBDA alert : is_allowed(domains, alert.url))
          ELSE <<>>)
         \o MockMatches(domains, patterns, Tail(table))

\* MockSearchProvider.search: [raised, results]
MockSearchProvider_search(domains, patterns, max_results) ==
    [raised |-> FALSE, results |-> Limit(MockMatches(domains, patterns, MOCK_ALERTS), max_results)]

\* a CustomHttpProvider.search without its except clause
CustomHttpProvider_search_NoExcept(domains, api_url, http, max_results) ==
    IF ~api_url THEN [raised |-> FALSE, results |-> <<>>]
    ELSE IF http.kind # "ok" THEN [raised |-> TRUE, results |-> <<>>]
    ELSE LET kept == SelectSeq(http.items, LAMBDA item : is_allowed(domains, item.url))
         IN  [raised |-> FALSE,
              results |-> Limit([i \in 1..Len(kept) |-> [url |-> kept[i].url, summary |-> kept[i].snippet]],
                                max_results)]

\* CustomHttpProvider.search: [raised, results].  api_url: whether one is
\* configured; http: what client.get / raise_for_status / response.json did
CustomHttpProvider_search(domains, api_url, http, max_results) ==
    IF ~api_url THEN [raised |-> FALSE, results |-> <<>>]
    ELSE IF http.kind # "ok" THEN [raised |-> FALSE, results |-> <<>>]
    ELSE LET kept == SelectSeq(http.items, LAMBDA item : is_allowed(domains, item.url))
         IN  [raised |-> FALSE,
              results |-> Limit([i \in 1..Len(kept) |-> [url |-> kept[i].url, summary |-> kept[i].snippet]],
                                max_results)]

\* GovernedSearchService.search: results = self.provider.search(query,
\* self.max_results), with no handler of its own
GovernedSearchService_search(cfg) ==
    IF cfg.provider = "mock"
    THEN MockSearchProvider_search(AllowlistDomains, cfg.patterns, cfg.max_results)
    ELSE CustomHttpProvider_search(AllowlistDomains, cfg.api_url, cfg.http, cfg.max_results)

\* network locations an external API can answer with
Netlocs ==
    { <<"owasp", ".", "org">>,
      <<"cwe", ".", "mitre", ".", "org", ":", "8443">>,
      <<"evil", ".", "example">>,
      <<"notowasp", ".", "org">>,
      <<"owasp", ".", "org", ":", "443", "@", "evil", ".", "example">>,
      <<"user", "@", "www", ".", "owasp", ".", "org">> }

\* the longest answer of the external API that is modelled
MaxItems == 3

HttpItems ==
    UNION { [1..n -> { [url |-> u, snippet |-> "snippet"] : u \in Netlocs }] : n \in 0..MaxItems }

\* client.get(...) raises (connection error or the 10 s timeout),
\* raise_for_status raises, response.json raises, or the call succeeds
HttpOutcomes ==
    { [kind |-> k, items |-> <<>>] : k \in {"timeout", "http_error", "bad_json"} }
    \cup { [kind |-> "ok", items |-> items] : items \in HttpItems }

SearchConfigs ==
    { [provider |-> "mock", patterns |-> ps, api_url |-> FALSE,
       http |-> [kind |-> "ok", items |-> <<>>], max_results |-> n] :
         ps \in SUBSET {"M-FRAUD", "M-SUSPICIOUS"}, n \in 1..WEB_MAX_RESULTS }
    \cup
    { [provider |-> "custom", patterns |-> {}, api_url |-> a, http |-> h, max_results |-> n] :
         a \in BOOLEAN, h \in HttpOutcomes, n \in 1..WEB_MAX_RESULTS }

InitSearch ==
    /\ StoresEmpty
    /\ \E cfg \in SearchConfigs :
          run = [p \in Procs |->
                    IF p = "p1"
                    THEN [IdleRun EXCEPT
                             !.pc = "threat_intel", !.txn = "T1", !.run_id = 1,
                             !.stage = 4,
                             !.state = run_transaction_context_agent(
                                           create_initial_state("T1", Scenario("T1").consolidated)),
                             !.args = cfg]
                    ELSE IdleRun]

\* the wrapped ThreatIntel node: get_next_seq, run_threat_intel_agent with
\* the search it makes, append_event
ThreatIntelNode(p) ==
    /\ run[p].pc = "threat_intel"
    /\ LET r == run[p]
           found == GovernedSearchService_search(r.args)
           new_state == run_threat_intel_agent(r.state, found.results)
           seq == get_next_seq(audit[r.txn])
       IN  /\ audit' = [audit EXCEPT ![r.txn] =
                          append_event(@, WrappedEvent("ThreatIntel", r.run_id, seq, r.state,
                                                       found.raised, new_state))]
           /\ run' = [run EXCEPT ![p].state = WrappedState("ThreatIntel", r.state, found.raised, new_state),
                                 ![p].raised = IF found.raised THEN @ \cup {"ThreatIntel"} ELSE @,
                                 ![p].seq = seq,
                                 ![p].pc = "threat_intel_done"]
    /\ UNCHANGED <<cases, decisions, res, clock, issued>>

NextSearch == \E p \in Procs : ThreatIntelNode(p) /\ UNCHANGED index

SpecSearch == InitSearch /\ [][NextSearch]_vars

-----------------------------------------------------------------------------
(* ingest_data rebuilding the index while PolicyRAG stages query it          *)

InitIngest ==
    /\ StoresEmpty
    /\ \E t \in TxnIds :
          run = [p \in Procs |->
                    [IdleRun EXCEPT
                        !.pc = "policy_rag", !.txn = t,
                        !.state = run_transaction_context_agent(
                                      create_initial_state(t, Scenario(t).consolidated))]]

\* policies = load_policies(data_dir / "fraud_policies.json")
IngestLoad ==
    /\ index.pc = "idle"
    /\ \E policies \in PolicyFiles : index' = [index EXCEPT !.pc = "clear", !.policies = policies]
    /\ UNCHANGED <<audit, cases, decisions, run, res, clock, issued>>

\* vector_store.clear()
IngestClear ==
    /\ index.pc = "clear"
    /\ index' = [index EXCEPT !.collection = clear(@), !.pc = "index"]
    /\ UNCHANGED <<audit, cases, decisions, run, res, clock, issued>>

\* index_policies(policies, vector_store)
IngestIndex ==
    /\ index.pc = "index"
    /\ index' = [index EXCEPT !.collection = upsert_documents(@, PolicyDocuments(index.policies)),
                              !.pc = "done"]
    /\ UNCHANGED <<audit, cases, decisions, run, res, clock, issued>>

\* run_policy_rag_agent(state, vector_store) with the query it makes
PolicyRAGQuery(p) ==
    /\ run[p].pc = "policy_rag"
    /\ \E results \in query(index.collection, TopK) :
          run' = [run EXCEPT ![p].state = run_policy_rag_agent(run[p].state, results),
                             ![p].args = results,
                             ![p].pc = "policy_rag_done"]
    /\ UNCHANGED <<audit, cases, decisions, res, clock, issued, index>>

NextIngest ==
    \/ IngestLoad
    \/ IngestClear
    \/ IngestIndex
    \/ \E p \in Procs : PolicyRAGQuery(p)

SpecIngest == InitIngest /\ [][NextIngest]_vars

-----------------------------------------------------------------------------
(* Observations used by the properties *)

\* the audit events pipeline run p has appended, in file order
RunEvents(p) == SelectSeq(audit[run[p].txn], LAMBDA e : e.run_id = run[p].run_id)

\* app.invoke has returned the final state of run p
GraphEnded(p) == run[p].pc \in {"respond", "save_read", "save_write"}
                 \/ (run[p].pc = "done" /\ run[p].outcome # "store_raised")

\* run p is between the end of its gate and the end of its request
PastGate(p) == run[p].pc \in {"respond", "save_read", "save_write"}

\* the number of agents of run p whose wrapper has returned
StagesDone(p) ==
    IF run[p].pc = "idle" THEN 0
    ELSE IF run[p].pc \in {"seq", "exec"} THEN run[p].stage - 1
    ELSE NumStages

CasesOf(t) == {i \in 1..Len(cases) : cases[i].transaction_id = t}
OpenCasesOf(t) == {i \in CasesOf(t) : cases[i].status = "OPEN"}

-----------------------------------------------------------------------------
(* C1 *)

\* C1: whenever at least one wrapped stage of a run raised, the run's final
\* state has decision ESCALATE_TO_HUMAN and hitl = {required: true,
\* reason: "agent_error:<a stage that raised>"}.
C1_FailureForcesEscalation ==
    \A p \in Procs :
        (GraphEnded(p) /\ run[p].raised # {}) =>
            /\ run[p].state.decision = Some("ESCALATE_TO_HUMAN")
            /\ run[p].state.hitl.required
            /\ \E n \in run[p].raised : run[p].state.hitl.reason = "agent_error:" \o n

-----------------------------------------------------------------------------
(* C2 *)

\* C2: run_fraud_detection never raises: every request that has ended has
\* returned a complete decision record with a confidence in [0, 1].
C2_RunAlwaysReturns ==
    \A p \in Procs :
        run[p].pc = "done" =>
            /\ run[p].outcome = "returned"
            /\ run[p].response # None
            /\ run[p].response[1].decision \in DecisionType
            /\ run[p].response[1].confidence \in 0..100

-----------------------------------------------------------------------------
(* C3 *)

\* C3 as stated: a run that has ended has appended one audit event per stage
\* and one for the HITL gate, ten in all, the gate's being the last.
C3_GateEmitsEvent ==
    \A p \in Procs :
        GraphEnded(p) => Len(RunEvents(p)) = NumStages + 1

\* C3, amended: within one run the orchestrator appends exactly one audit
\* event per wrapped agent (the nine of StageNames; the HITL gate appends
\* none), in stage order; the event's agent is the stage name on success and
\* the stage name suffixed _error, with output_json.error set, on failure;
\* a failing stage does not stop the later stages.
C3_OneEventPerWrappedAgent ==
    \A p \in Procs :
        run[p].pc # "idle" =>
            LET events == RunEvents(p)
            IN  /\ Len(events) = StagesDone(p)
                /\ GraphEnded(p) => Len(events) = NumStages
                /\ \A i \in 1..Len(events) :
                      LET failed == StageNames[i] \in run[p].raised
                      IN  /\ events[i].agent = IF failed THEN ErrorName(StageNames[i]) ELSE StageNames[i]
                          /\ failed <=> IsErrorAgent(events[i].agent)
                          /\ failed <=> "error" \in DOMAIN events[i].output_json

\* a run whose first stage raised has gone through its gate with nine events,
\* the last one being Explainability's
C3_Witness ==
    \E p \in Procs :
        /\ PastGate(p)
        /\ run[p].raised = {"TransactionContext"}
        /\ Len(RunEvents(p)) = NumStages
        /\ RunEvents(p)[1].agent = "TransactionContext_error"
        /\ RunEvents(p)[NumStages].agent = "Explainability"

-----------------------------------------------------------------------------
(* C4 *)

\* C4: when requests do not overlap, the seq values of a transaction's audit
\* events, in append order, start at 1 and are strictly increasing (each
\* event's seq is greater than its predecessor's, hence than every earlier one).
C4_SeqStrictlyIncreasing ==
    \A t \in TxnIds :
        /\ audit[t] # <<>> => audit[t][1].seq = 1
        /\ \A i \in 1..(Len(audit[t]) - 1) : audit[t][i].seq < audit[t][i + 1].seq

\* a transaction with the events of a run, then of a resolution, then of a
\* second run
C4_Witness ==
    \E t \in TxnIds :
        \E i, j, k \in 1..Len(audit[t]) :
            /\ i < j /\ j < k
            /\ audit[t][i].run_id = 1
            /\ audit[t][j].agent = "HITL"
            /\ audit[t][k].run_id = 2

-----------------------------------------------------------------------------
(* C5 *)

\* C5: when requests for one transaction overlap, no two audit events of the
\* transaction carry the same seq.
C5_SeqUniqueUnderOverlap ==
    \A t \in TxnIds :
        \A i, j \in 1..Len(audit[t]) : i # j => audit[t][i].seq # audit[t][j].seq

-----------------------------------------------------------------------------
(* C6 *)

\* C6: with requests one after the other, a transaction never has more than
\* one case; a gate that ends with hitl.required = true leaves exactly one
\* case for the transaction; a case is only ever added by a run whose
\* hitl.required is true.
C6_GateIdempotent ==
    [][ /\ \A t \in TxnIds : Cardinality(CasesOf(t))' <= 1
        /\ \A p \in Procs :
              (run[p].pc \in {"gate", "create_write"} /\ run'[p].pc = "respond") =>
                  IF run[p].state.hitl.required
                  THEN Cardinality(CasesOf(run[p].txn))' = 1
                  ELSE cases' = cases
        /\ Len(cases') > Len(cases) =>
              \E p \in Procs : run[p].pc = "create_write" /\ run[p].state.hitl.required
      ]_vars

\* the second of two runs of a transaction, both with hitl.required = true
\* and no stage raising, is past its gate and the transaction has one case
C6_Witness ==
    \E p \in Procs :
        /\ PastGate(p)
        /\ run[p].run_id = 2
        /\ run[p].state.hitl.required
        /\ \E i \in 1..Len(audit[run[p].txn]) : audit[run[p].txn][i].run_id = 1
        /\ issued.failures = 0
        /\ Cardinality(CasesOf(run[p].txn)) = 1

-----------------------------------------------------------------------------
(* C7 *)

\* C7: in every reachable state, overlapping runs included, the HITL store
\* holds at most one OPEN case per transaction.
C7_AtMostOneOpenCase ==
    \A t \in TxnIds : Cardinality(OpenCasesOf(t)) <= 1

-----------------------------------------------------------------------------
(* C8 *)

\* C8: when a run has gone through its gate with hitl.required = true, an
\* OPEN case exists for its transaction.
C8_EscalationHasOpenCase ==
    \A p \in Procs :
        (PastGate(p) /\ run[p].state.hitl.required) => OpenCasesOf(run[p].txn) # {}

-----------------------------------------------------------------------------
(* C9 *)

CaseIndex(case_id) == {i \in 1..Len(cases) : cases[i].case_id = case_id}

\* C9: resolving an OPEN case makes it RESOLVED with the given resolution and
\* a resolved_at, and touches no other case; a resolve request for a RESOLVED
\* case is rejected (400) and one for an unknown case_id is rejected (404),
\* both without changing any case; a RESOLVED case never changes.
C9_ResolveContract ==
    [][ /\ \A h \in Resolvers :
              /\ (res[h].pc = "resolve_write" /\ res'[h].pc = "audit_seq") =>
                    /\ Len(cases') = Len(cases)
                    /\ \E i \in CaseIndex(res[h].case_id) :
                          /\ cases[i].status = "OPEN"
                          /\ cases'[i] = [cases[i] EXCEPT !.status = "RESOLVED",
                                                          !.resolution = res[h].resolution,
                                                          !.resolved_at = Some(res[h].resolved_at)]
                          /\ cases'[i].resolution # None
                          /\ \A j \in 1..Len(cases) : j # i => cases'[j] = cases[j]
              /\ (res[h].pc = "get_case" /\ res'[h] # res[h]) =>
                    LET hit == CaseIndex(res[h].case_id)
                    IN  /\ hit = {} <=> res'[h].outcome = "404"
                        /\ (\E i \in hit : cases[i].status = "RESOLVED") <=> res'[h].outcome = "400"
                        /\ res'[h].outcome \in {"404", "400"} => (res'[h].pc = "done" /\ cases' = cases)
        /\ \A i \in 1..Len(cases) :
              cases[i].status = "RESOLVED" => (i <= Len(cases') /\ cases'[i] = cases[i])
      ]_vars

\* a resolve request has been answered 400 for a case that an earlier request
\* resolved
C9_Witness ==
    \E h \in Resolvers :
        /\ res[h].outcome = "400"
        /\ issued.resolves = 2
        /\ \E i \in 1..Len(cases) : cases[i].status = "RESOLVED" /\ cases[i].resolution # None

-----------------------------------------------------------------------------
(* C10 *)

\* C10: under every interleaving of resolve requests, once a case is RESOLVED
\* its resolution and resolved_at are set and never change again.
C10_ResolvedOnce ==
    [][ \A i \in 1..Len(cases) :
            cases[i].status = "RESOLVED" =>
                /\ cases[i].resolution # None /\ cases[i].resolved_at # None
                /\ i <= Len(cases')
                /\ cases'[i].status = "RESOLVED"
                /\ cases'[i].resolution = cases[i].resolution
                /\ cases'[i].resolved_at = cases[i].resolved_at
      ]_vars

-----------------------------------------------------------------------------
(* C11 *)

\* the transaction of the case a resolve request has been accepted for
ResolvedTxn(h) == res[h].case[1].transaction_id

\* C11: an accepted resolution of a case whose transaction has a stored
\* decision rewrites that decision: its decision field becomes the
\* resolution's decision, while confidence, signals, citations_internal,
\* citations_external, ai_summary and hitl are those of the decision stored
\* before; and an audit event with agent HITL has been appended for the
\* transaction by the time the request returns.
C11_ResolutionRewritesDecision ==
    [][ \A h \in Resolvers :
          /\ (res[h].pc = "get_decision" /\ res'[h].pc # "get_decision") =>
                (decisions[ResolvedTxn(h)] # None <=> res'[h].pc = "save_read")
          /\ (res[h].pc = "save_write" /\ res'[h].pc = "return") =>
                LET before == decisions[ResolvedTxn(h)]
                    after  == decisions'[ResolvedTxn(h)]
                IN  /\ before # None /\ after # None
                    /\ after[1].decision = res[h].resolution[1].decision
                    /\ after[1].confidence = before[1].confidence
                    /\ after[1].signals = before[1].signals
                    /\ after[1].citations_internal = before[1].citations_internal
                    /\ after[1].citations_external = before[1].citations_external
                    /\ after[1].ai_summary = before[1].ai_summary
                    /\ after[1].hitl = before[1].hitl
                    /\ \A t \in TxnIds : t # ResolvedTxn(h) => decisions'[t] = decisions[t]
          /\ (res[h].pc = "return" /\ res'[h].outcome = "200") =>
                LET file == audit[ResolvedTxn(h)]
                IN  /\ file # <<>>
                    /\ file[Len(file)].agent = "HITL"
                    /\ file[Len(file)].output_json = res[h].resolution[1]
                    /\ res[h].original # None =>
                          decisions[ResolvedTxn(h)][1].decision = res[h].resolution[1].decision
      ]_vars

\* a resolve request is about to return after approving a transaction whose
\* stored decision was an escalation
C11_Witness ==
    \E h \in Resolvers :
        /\ res[h].pc = "return"
        /\ res[h].original # None
        /\ res[h].original[1].decision = "ESCALATE_TO_HUMAN"
        /\ decisions[ResolvedTxn(h)][1].decision = "APPROVE"
        /\ decisions[ResolvedTxn(h)][1].hitl.required

-----------------------------------------------------------------------------
(* C12 *)

\* the rules of the Arbiter that match an input, as the set of their numbers
\* (rule 5, the default, always matches)
MatchingRules(state) ==
    LET m == state.metrics
        cf == ArbiterConfidence(state)
    IN  {k \in 1..5 :
            \/ k = 1 /\ m.policy_hint = "ESCALATE_TO_HUMAN" /\ m.new_country /\ m.new_device
            \/ k = 2 /\ cf >= 750 /\ InSeq("Alerta externa", state.signals) /\ m.amount_ratio > 300
            \/ k = 3 /\ m.amount_ratio > 300 /\ m.hour_outside
            \/ k = 4 /\ cf < 450 /\ Len(state.signals) <= 1
            \/ k = 5}

\* the decision rule k gives
RuleOutcome(k, state) ==
    CASE k = 1 -> "ESCALATE_TO_HUMAN"
      [] k = 2 -> "BLOCK"
      [] k = 3 -> "CHALLENGE"
      [] k = 4 -> "APPROVE"
      [] k = 5 -> IF ArbiterConfidence(state) >= 600 THEN "CHALLENGE" ELSE "ESCALATE_TO_HUMAN"

\* C12: the Arbiter's decision is the outcome of the first rule, in the order
\* 1..5, that matches its input; later matching rules do not change it, and
\* the decision is one of the four decisions.
C12_FirstMatchingRuleDecides ==
    \A p \in Procs :
        run[p].pc = "arbiter_done" =>
            LET state == run[p].state
                matching == MatchingRules(state)
                first == CHOOSE k \in matching : \A j \in matching : k <= j
            IN  /\ state.decision = Some(RuleOutcome(first, state))
                /\ state.decision[1] \in DecisionType

\* the Arbiter has decided BLOCK by rule 2 on an input that rules 3 and 5
\* also match, with another outcome
C12_Witness ==
    \E p \in Procs :
        /\ run[p].pc = "arbiter_done"
        /\ {2, 3} \subseteq MatchingRules(run[p].state)
        /\ 1 \notin MatchingRules(run[p].state)
        /\ run[p].state.decision = Some("BLOCK")

-----------------------------------------------------------------------------
(* C13 *)

\* behavior_risk + (0.20 if citations_external) + pro_fraud delta
\* - pro_customer delta of an Arbiter input, unclamped, in thousandths
RawScore(state) ==
    10 * state.metrics.behavior_risk
    + (IF state.citations_external # <<>> THEN 200 ELSE 0)
    + state.debate.pro_fraud.confidence_delta
    - state.debate.pro_customer.confidence_delta

\* C13: the Arbiter's score is the raw score clamped to [0, 1], and the
\* confidence of the result is that score rounded to 2 decimals: it lies in
\* [0, 1] and is within half a hundredth of the score.
C13_ConfidenceClampedAndRounded ==
    \A p \in Procs :
        run[p].pc = "arbiter_done" =>
            LET state == run[p].state
                raw == RawScore(state)
                cf == IF raw < 0 THEN 0 ELSE IF raw > 1000 THEN 1000 ELSE raw
                confidence == state.confidence[1]
            IN  /\ ArbiterConfidence(state) = cf
                /\ confidence \in 0..100
                /\ 10 * confidence - cf \in -5..5

\* the Arbiter has returned confidence 0 for an input whose raw score is
\* negative
C13_Witness ==
    \E p \in Procs :
        /\ run[p].pc = "arbiter_done"
        /\ RawScore(run[p].state) < 0
        /\ run[p].state.confidence = Some(0)

-----------------------------------------------------------------------------
(* C14 *)

\* C14: the Arbiter requires HITL exactly when the decision is
\* ESCALATE_TO_HUMAN or 0.45 <= cf <= 0.60; the reason is the tag
\* "policy_or_low_confidence" for an escalation, "borderline_confidence" when
\* only the borderline score requires HITL, and empty otherwise.
C14_HitlFlagAndReasonTag ==
    \A p \in Procs :
        run[p].pc = "arbiter_done" =>
            LET state == run[p].state
                cf == ArbiterConfidence(state)
                escalated == state.decision = Some("ESCALATE_TO_HUMAN")
                borderline == 450 <= cf /\ cf <= 600
            IN  /\ state.hitl.required <=> (escalated \/ borderline)
                /\ state.hitl.reason = IF escalated THEN "policy_or_low_confidence"
                                       ELSE IF borderline THEN "borderline_confidence"
                                       ELSE ""

-----------------------------------------------------------------------------
(* C15 *)

\* C15: for an Arbiter input with the single signal "Monto fuera de rango",
\* amount_ratio > 3, hour_outside false, no external citation and a score in
\* [0.45, 0.60], the decision is CHALLENGE and HITL is required with reason
\* "borderline_confidence".
C15_BorderlineChallenge ==
    \A p \in Procs :
        LET state == run[p].state
        IN  ( /\ run[p].pc = "arbiter_done"
              /\ state.signals = << "Monto fuera de rango" >>
              /\ state.metrics.amount_ratio > 300
              /\ ~state.metrics.hour_outside
              /\ state.citations_external = << >>
              /\ ArbiterConfidence(state) \in 450..600 ) =>
                /\ state.decision = Some("CHALLENGE")
                /\ state.hitl = [required |-> TRUE, reason |-> "borderline_confidence"]

-----------------------------------------------------------------------------
(* C16 *)

\* the retrieved documents in the opposite order
Reversed(docs) == [i \in 1..Len(docs) |-> docs[Len(docs) + 1 - i]]

\* the most severe keyword any of the documents holds, "None" without one
HighestSeverity(docs) ==
    LET found == UNION { docs[i].keywords : i \in 1..Len(docs) }
    IN  IF "ESCALATE_TO_HUMAN" \in found THEN "ESCALATE_TO_HUMAN"
        ELSE IF "BLOCK" \in found THEN "BLOCK"
        ELSE IF "CHALLENGE" \in found THEN "CHALLENGE"
        ELSE "None"

\* C16: the policy hint PolicyRAG stores is the most severe keyword found in
\* any retrieved rule text (ESCALATE_TO_HUMAN over BLOCK over CHALLENGE), unset
\* when no rule holds a keyword, and the same when the documents come back in
\* the opposite order.
C16_HintIsHighestSeverity ==
    \A p \in Procs :
        run[p].pc = "policy_rag_done" =>
            /\ run[p].state.metrics.policy_hint = HighestSeverity(run[p].args)
            /\ run_policy_rag_agent(run[p].state, Reversed(run[p].args)).metrics.policy_hint
                   = run[p].state.metrics.policy_hint

-----------------------------------------------------------------------------
(* C17 *)

\* the number of agents applied so far when they are called on their own
Applied(p) ==
    IF run[p].pc = "stage" THEN run[p].stage - 1
    ELSE IF run[p].pc = "stages_done" THEN NumStages
    ELSE 0

ThreatIntelStage == CHOOSE i \in 1..NumStages : StageNames[i] = "ThreatIntel"

Occurrences(signals, s) == Cardinality({i \in 1..Len(signals) : signals[i] = s})

\* C17: once the ThreatIntel stage has run, "Alerta externa" is among the
\* signals exactly when the governed search returned at least one result, it
\* is there exactly once, and citations_external is the returned result list.
C17_ExternalAlertIffResults ==
    \A p \in Procs :
        Applied(p) >= ThreatIntelStage =>
            /\ InSeq("Alerta externa", run[p].state.signals) <=> (run[p].args.results # << >>)
            /\ Occurrences(run[p].state.signals, "Alerta externa") =
                   (IF run[p].args.results # << >> THEN 1 ELSE 0)
            /\ run[p].state.citations_external = run[p].args.results

\* the ThreatIntel stage has run on a search that returned results
C17_Witness ==
    \E p \in Procs :
        /\ Applied(p) = ThreatIntelStage
        /\ Len(run[p].args.results) = 2
        /\ InSeq("Alerta externa", run[p].state.signals)

-----------------------------------------------------------------------------
(* C18 *)

NoDuplicates(signals) ==
    \A i, j \in 1..Len(signals) : signals[i] = signals[j] => i = j

\* C18: in every state of a pipeline run started from the initial state, and
\* in the response built from the final state, no signal occurs more than
\* once, whatever the transaction, the profile and the search results.
C18_SignalsHaveNoDuplicates ==
    \A p \in Procs :
        /\ run[p].pc \in {"stage", "stages_done"} => NoDuplicates(run[p].state.signals)
        /\ run[p].pc = "stages_done" => NoDuplicates(DecisionResponse(run[p].state).signals)

\* a finished run in which every stage that can append a signal did
C18_Witness ==
    \E p \in Procs :
        /\ run[p].pc = "stages_done"
        /\ Len(run[p].state.signals) = 5

-----------------------------------------------------------------------------
(* C20 *)

ContextStage == CHOOSE i \in 1..NumStages : StageNames[i] = "TransactionContext"

\* the four Context signals in the order of the claim, each kept when its
\* condition holds
ExpectedSignals(amount_high, hour_outside, new_country, new_device) ==
    SelectSeq(<< "Monto fuera de rango", "Horario no habitual", "Pais no habitual", "Dispositivo nuevo" >>,
              LAMBDA s : \/ s = "Monto fuera de rango" /\ amount_high
                         \/ s = "Horario no habitual" /\ hour_outside
                         \/ s = "Pais no habitual" /\ new_country
                         \/ s = "Dispositivo nuevo" /\ new_device)

\* the three flags and the signal list the Context stage must leave
ContextFlagsAndSignals(state) ==
    LET c == state.consolidated
        m == state.metrics
        hour == extract_hour(c.timestamp)
        amount_high == c.usual_amount_avg = 0 \/ c.amount > 3 * c.usual_amount_avg
    IN  /\ m.hour_outside = (hour < c.usual_hours_start \/ hour > c.usual_hours_end)
        /\ m.new_country = (c.country \notin c.usual_countries)
        /\ m.new_device = (c.device_id \notin c.usual_devices)
        /\ state.signals = ExpectedSignals(amount_high, m.hour_outside, m.new_country, m.new_device)

\* C20 as stated: right after the Context stage the flags and the signals are
\* as above and metrics.amount_ratio is exactly amount / usual_amount_avg
\* (999.0 when usual_amount_avg is 0).
C20_ContextExactRatio ==
    \A p \in Procs :
        Applied(p) = ContextStage =>
            LET c == run[p].state.consolidated
                m == run[p].state.metrics
            IN  /\ ContextFlagsAndSignals(run[p].state)
                /\ IF c.usual_amount_avg = 0 THEN m.amount_ratio = 99900
                   ELSE m.amount_ratio * c.usual_amount_avg = 100 * c.amount

\* C20 amended: right after the Context stage hour_outside, new_country and
\* new_device are as stated, the signals are the four conditional signals in
\* the stated order with "Monto fuera de rango" decided on the quotient
\* amount / usual_amount_avg itself, and metrics.amount_ratio is that quotient
\* rounded to 2 decimals (999.0 when usual_amount_avg is 0).
C20_ContextRoundedRatio ==
    \A p \in Procs :
        Applied(p) = ContextStage =>
            LET c == run[p].state.consolidated
                m == run[p].state.metrics
                err == m.amount_ratio * c.usual_amount_avg - 100 * c.amount
            IN  /\ ContextFlagsAndSignals(run[p].state)
                /\ IF c.usual_amount_avg = 0 THEN m.amount_ratio = 99900
                   ELSE 2 * err <= c.usual_amount_avg /\ -2 * err <= c.usual_amount_avg

\* the Context stage has run on a transaction that raises all four signals and
\* whose quotient has more than 2 decimals
C20_Witness ==
    \E p \in Procs :
        /\ Applied(p) = ContextStage
        /\ Len(run[p].state.signals) = 4
        /\ run[p].state.consolidated.amount = 2000
        /\ run[p].state.consolidated.usual_amount_avg = 300
        /\ run[p].state.metrics.amount_ratio = 667

-----------------------------------------------------------------------------
(* C19 *)

\* the risk of the claim, in hundredths, from the four metrics alone
\* (amount_ratio 1.0 when the key is absent)
ClaimedRisk(metrics) ==
    LET amount_ratio == Get(metrics, "amount_ratio", 100)
        band == (IF amount_ratio > 500 THEN 35 ELSE 0)
                + (IF 300 < amount_ratio /\ amount_ratio <= 500 THEN 25 ELSE 0)
                + (IF 200 < amount_ratio /\ amount_ratio <= 300 THEN 15 ELSE 0)
    IN  Min(100, band + (IF metrics.hour_outside THEN 15 ELSE 0)
                      + (IF metrics.new_device THEN 20 ELSE 0)
                      + (IF metrics.new_country THEN 25 ELSE 0))

\* C19: whenever the Behavior agent returns, behavior_risk is one amount band
\* (0.35 above 5, 0.25 in (3,5], 0.15 in (2,3], else 0) plus 0.15 for
\* hour_outside, 0.20 for new_device and 0.25 for new_country, capped at 1.0,
\* hence within [0,1] and a function of those four metrics only; and applying
\* the agent to its own output leaves behavior_risk as it was.
C19_BehaviorRisk ==
    [][\A p \in Procs :
          /\ run'[p].pc \in {"behavior_done", "behavior_again"} =>
                /\ run'[p].state.metrics.behavior_risk = ClaimedRisk(run'[p].state.metrics)
                /\ run'[p].state.metrics.behavior_risk \in 0..100
          /\ (run[p].pc = "behavior_done" /\ run'[p].pc = "behavior_again") =>
                run'[p].state.metrics.behavior_risk = run[p].state.metrics.behavior_risk]_vars

\* the agent has been applied twice to a transaction in the top band with all
\* three flags set
C19_Witness ==
    \E p \in Procs :
        /\ run[p].pc = "behavior_again"
        /\ run[p].state.metrics.behavior_risk = 95

-----------------------------------------------------------------------------
(* C21 *)

\* the position of the last "@" of a network location, 0 without one
LastAt(netloc) ==
    IF \E i \in 1..Len(netloc) : netloc[i] = "@"
    THEN CHOOSE i \in 1..Len(netloc) : netloc[i] = "@" /\ \A j \in (i + 1)..Len(netloc) : netloc[j] # "@"
    ELSE 0

\* the host a client connects to (urlparse(url).hostname): what follows the
\* user information, without the port
HostOf(netloc) == BeforeColon(SubSeq(netloc, LastAt(netloc) + 1, Len(netloc)))

HostAllowlisted(netloc) ==
    \/ HostOf(netloc) \in AllowlistDomains
    \/ \E allowed \in AllowlistDomains : EndsWith(HostOf(netloc), <<".">> \o allowed)

\* C21: every result the governed search returned, hence every
\* citations_external entry, has a URL whose host, without its port, is an
\* allowlisted domain or a sub-domain of one, and there are never more
\* results than max_results.
C21_ResultsAllowlistedAndCapped ==
    \A p \in Procs :
        run[p].pc = "threat_intel_done" =>
            /\ \A i \in 1..Len(run[p].state.citations_external) :
                   HostAllowlisted(run[p].state.citations_external[i].url)
            /\ Len(run[p].state.citations_external) <= run[p].args.max_results

-----------------------------------------------------------------------------
(* C22 *)

\* the provider of run p was asked and its HTTP call failed
ProviderFailed(p) ==
    /\ run[p].args.provider = "custom"
    /\ run[p].args.api_url
    /\ run[p].args.http.kind # "ok"

\* C22: the governed search never raises into the ThreatIntel stage; when the
\* provider's call fails (raises or times out) the search returns the empty
\* list, so ThreatIntel completes with no external citation, no "Alerta
\* externa" signal and no _error audit event.
C22_ProviderFailureSwallowed ==
    \A p \in Procs :
        run[p].pc = "threat_intel_done" =>
            /\ "ThreatIntel" \notin run[p].raised
            /\ \A i \in 1..Len(audit[run[p].txn]) : ~IsErrorAgent(audit[run[p].txn][i].agent)
            /\ ProviderFailed(p) =>
                  /\ run[p].state.citations_external = << >>
                  /\ ~InSeq("Alerta externa", run[p].state.signals)
                  /\ RunEvents(p) # << >>
                  /\ \A i \in 1..Len(RunEvents(p)) : RunEvents(p)[i].agent = "ThreatIntel"

\* the ThreatIntel node has returned after its provider's call timed out
C22_Witness ==
    \E p \in Procs :
        /\ run[p].pc = "threat_intel_done"
        /\ ProviderFailed(p)
        /\ run[p].args.http.kind = "timeout"

-----------------------------------------------------------------------------
(* C23 *)

\* the audit events of transaction t that a pipeline run labelled run_id wrote
EventsOfRun(t, run_id) == SelectSeq(audit[t], LAMBDA e : e.run_id = run_id)

PipelineRunIds(t) == {audit[t][i].run_id : i \in 1..Len(audit[t])} \ {HitlManualRun}

\* C23: every pipeline invocation has its own run_id: a run_id labels the
\* events of one invocation only, so it never appears in the audit files of
\* two transactions nor on more events of one file than one invocation
\* appends.
C23_RunIdPerInvocation ==
    /\ \A t1, t2 \in TxnIds : t1 # t2 => PipelineRunIds(t1) \cap PipelineRunIds(t2) = {}
    /\ \A t \in TxnIds : \A id \in PipelineRunIds(t) : Len(EventsOfRun(t, id)) <= NumStages

-----------------------------------------------------------------------------
(* C24 *)

StoredCaseIds == {cases[i].case_id : i \in 1..Len(cases)}

\* the resolutions the route accepted for transaction t (one HITL audit event
\* each)
AcceptedResolutions(t) ==
    {audit[t][i].output_json : i \in {j \in 1..Len(audit[t]) : audit[t][j].agent = "HITL"}}

\* C24: the read-modify-write operations of the file-backed stores are atomic
\* with respect to each other: once all overlapping requests have completed,
\* every case a create_case call wrote is stored, every resolution the route
\* accepted is stored in a RESOLVED case of its transaction, and every
\* decision a run saved is stored.
C24_NoLostUpdate ==
    InFlight = 0 =>
        /\ StoredCaseIds = 1..issued.cases
        /\ \A t \in TxnIds : \A r \in AcceptedResolutions(t) :
               \E i \in CasesOf(t) : cases[i].status = "RESOLVED" /\ cases[i].resolution = Some(r)
        /\ \A p \in Procs : run[p].outcome = "returned" => decisions[run[p].txn] # None

-----------------------------------------------------------------------------
(* C25 *)

\* the index holding exactly one document per policy, named
\* "{policy_id}:{version}:{chunk_id}"
CompleteIndex(policies) ==
    { [doc_id |-> policies[i].policy_id \o ":" \o policies[i].version \o ":" \o "1",
       policy_id |-> policies[i].policy_id, chunk_id |-> "1", version |-> policies[i].version,
       keywords |-> policies[i].keywords] : i \in 1..Len(policies) }

\* C25: a PolicyRAG query that overlaps an ingest answers from the complete
\* index of before the ingest or from the complete index of after it, never
\* from the cleared one; and once an ingest has completed the index holds
\* exactly one document per ingested policy, with doc_id
\* "{policy_id}:{version}:{chunk_id}".
C25_RebuildExclusive ==
    /\ \A p \in Procs :
          run[p].pc = "policy_rag_done" =>
              \/ run[p].args \in query(CompleteIndex(LoadedPolicies), TopK)
              \/ index.pc # "idle" /\ run[p].args \in query(CompleteIndex(index.policies), TopK)
    /\ index.pc = "done" => index.collection = CompleteIndex(index.policies)

-----------------------------------------------------------------------------
(* C26 *)

\* run p is about to apply the named agent without a reasoning model and its
\* next step applies it
AppliesWithoutModel(p, agent_name) ==
    /\ run[p].pc = "stage"
    /\ StageNames[run[p].stage] = agent_name
    /\ ~run[p].args.llm
    /\ run'[p] # run[p]

\* a debate stage left everything but its own slot as it was
OnlySlotWritten(p, other) ==
    /\ run'[p].state.debate[other] = run[p].state.debate[other]
    /\ run'[p].state.signals = run[p].state.signals
    /\ run'[p].state.metrics = run[p].state.metrics
    /\ run'[p].state.decision = run[p].state.decision

\* C26: without a reasoning model, Pro-Fraud recommends BLOCK when "Alerta
\* externa" is a signal and amount_ratio > 3 and CHALLENGE otherwise, with
\* delta 0.05 for three or more signals, 0.02 for two, 0.00 otherwise;
\* Pro-Customer recommends APPROVE when there is at most one signal and it is
\* "Horario no habitual" or "Dispositivo nuevo" and CHALLENGE otherwise, with
\* delta 0.03 without "Alerta externa" and 0.00 with it; each stage writes
\* its own debate slot only.
C26_DeterministicDebate ==
    [][\A p \in Procs :
          LET signals == run[p].state.signals
              n == Len(signals)
              alert == InSeq("Alerta externa", signals)
          IN  /\ AppliesWithoutModel(p, "DebateProFraud") =>
                    /\ run'[p].state.debate.pro_fraud.recommended_decision =
                           (IF alert /\ run[p].state.metrics.amount_ratio > 300 THEN "BLOCK" ELSE "CHALLENGE")
                    /\ run'[p].state.debate.pro_fraud.confidence_delta =
                           (IF n >= 3 THEN 50 ELSE IF n = 2 THEN 20 ELSE 0)
                    /\ OnlySlotWritten(p, "pro_customer")
              /\ AppliesWithoutModel(p, "DebateProCustomer") =>
                    /\ run'[p].state.debate.pro_customer.recommended_decision =
                           (IF n = 0 \/ (n = 1 /\ signals[1] \in {"Horario no habitual", "Dispositivo nuevo"})
                            THEN "APPROVE" ELSE "CHALLENGE")
                    /\ run'[p].state.debate.pro_customer.confidence_delta = (IF alert THEN 0 ELSE 30)
                    /\ OnlySlotWritten(p, "pro_fraud")]_vars

\* both debate stages have run without a reasoning model on two signals, one
\* of them the external alert on a high amount
C26_Witness ==
    \E p \in Procs :
        /\ run[p].pc = "stage"
        /\ StageNames[run[p].stage] = "Arbiter"
        /\ ~run[p].args.llm
        /\ Len(run[p].state.signals) = 2
        /\ run[p].state.debate.pro_fraud = [recommended_decision |-> "BLOCK", confidence_delta |-> 20,
                                            reasoning |-> "alerta externa con monto elevado"]
        /\ run[p].state.debate.pro_customer.recommended_decision = "CHALLENGE"
        /\ run[p].state.debate.pro_customer.confidence_delta = 0

-----------------------------------------------------------------------------
(* C27 *)

\* run p is about to apply the named debate agent with a reasoning model and
\* its next step is the one taken when the model's answer did not parse
UnparsedAnswerStep(p, agent_name) ==
    /\ run[p].pc = "stage"
    /\ StageNames[run[p].stage] = agent_name
    /\ run[p].args.llm
    /\ run'[p].stage = run[p].stage + 1
    /\ run'[p].state = AgentResult(agent_name, run[p].state, run[p].args, EmptyDict, audit[run[p].txn])

SamePosition(a, b) ==
    /\ a.recommended_decision = b.recommended_decision
    /\ a.confidence_delta = b.confidence_delta

\* C27: on the model-assisted path, when the model's answer cannot be parsed,
\* each debate stage yields the recommended_decision and confidence_delta the
\* deterministic fallback returns for the same state, and does not fail.
C27_UnparsedFallsBack ==
    [][\A p \in Procs :
          /\ UnparsedAnswerStep(p, "DebateProFraud") =>
                /\ run'[p].state.hitl = run[p].state.hitl
                /\ SamePosition(run'[p].state.debate.pro_fraud, run_debate_pro_fraud_agent_mock(run[p].state))
          /\ UnparsedAnswerStep(p, "DebateProCustomer") =>
                /\ run'[p].state.hitl = run[p].state.hitl
                /\ SamePosition(run'[p].state.debate.pro_customer,
                                run_debate_pro_customer_agent_mock(run[p].state))]_vars

-----------------------------------------------------------------------------
(* C28 *)

RECURSIVE StageLabels(_, _)
\* the labels of the events in order, without "_error" events and with a
\* debate event that follows a debate event dropped
StageLabels(events, labels) ==
    IF events = <<>> THEN labels
    ELSE LET label == FriendlyName(Head(events).agent)
         IN  IF IsErrorAgent(Head(events).agent) THEN StageLabels(Tail(events), labels)
             ELSE IF label = "Debate" /\ labels # <<>> /\ labels[Len(labels)] = "Debate"
             THEN StageLabels(Tail(events), labels)
             ELSE StageLabels(Tail(events), Append(labels, label))

\* the next step of run p is its Explainability stage, and it writes the
\* audit explanation
WritesAgentPath(p) ==
    /\ run[p].pc = "exec"
    /\ StageNames[run[p].stage] = "Explainability"
    /\ run'[p].pc = "gate"
    /\ run'[p].state.explanation_audit # None

\* C28: the agent path the Explainability stage writes is the sequence of
\* stage labels of the audit events recorded for the transaction, in seq
\* order, without "_error" events and with consecutive debate events
\* collapsed into one "Debate", also after earlier runs and resolutions of
\* the same transaction.
C28_AgentPathFollowsEvents ==
    [][\A p \in Procs :
          WritesAgentPath(p) =>
              run'[p].state.explanation_audit[1].agent_path
                  = StageLabels(get_events(audit[run[p].txn]), <<>>)]_vars

-----------------------------------------------------------------------------
(* C29 *)

\* C29: after the Context stage the amount signal and the stored metric
\* agree: "Monto fuera de rango" is among the signals if and only if
\* metrics.amount_ratio, the value rounded to 2 decimals, is greater than 3.
C29_AmountSignalMatchesMetric ==
    \A p \in Procs :
        Applied(p) >= ContextStage =>
            (InSeq("Monto fuera de rango", run[p].state.signals)
                 <=> run[p].state.metrics.amount_ratio > 300)

-----------------------------------------------------------------------------
(* C30 *)

\* C30: a human resolution is final for the stored decision: once a
\* transaction's HITL case is RESOLVED and no request is in progress, the
\* stored decision of that transaction, if there is one, has the resolution's
\* decision, also when the transaction was analysed again afterwards.
C30_ResolutionIsFinal ==
    Quiet =>
        \A i \in 1..Len(cases) :
            (cases[i].status = "RESOLVED" /\ decisions[cases[i].transaction_id] # None) =>
                decisions[cases[i].transaction_id][1].decision = cases[i].resolution[1].decision

=============================================================================
